---- MODULE Spec2Model ----
(***************************************************************************)
(* Atlas packing, cross-channel rect reuse and UV remapping of the         *)
(* GlbToolsWeb atlas library (scripts/atlas-lib.mjs, carried in            *)
(* src/scripts/atlas-cli.mjs) and of the browser worker                    *)
(* (src/web/src/atlas-worker.js).                                          *)
(*                                                                         *)
(* Numbers: UV coordinates and scale factors are exact rationals <<n, d>>  *)
(* (d > 0, lowest terms); the rounding of IEEE floats is not modelled.     *)
(* Pixel sizes are integers.                                               *)
(***************************************************************************)
EXTENDS Integers, Sequences, FiniteSets, TLC

(* ------------------------------------------------------------------ *)
(* Arithmetic helpers                                                   *)
(* ------------------------------------------------------------------ *)
Min2(a, b) == IF a <= b THEN a ELSE b
Max2(a, b) == IF a >= b THEN a ELSE b
Abs(n) == IF n < 0 THEN -n ELSE n

RECURSIVE Gcd(_, _)
Gcd(a, b) == IF b = 0 THEN a ELSE Gcd(b, a % b)

\* the rational n/d (d > 0) in lowest terms
Rat(n, d) == LET g == Gcd(Abs(n), d) IN <<n \div g, d \div g>>
RInt(n) == <<n, 1>>
RAdd(a, b) == Rat(a[1] * b[2] + b[1] * a[2], a[2] * b[2])
RMul(a, b) == Rat(a[1] * b[1], a[2] * b[2])
RLe(a, b) == a[1] * b[2] <= b[1] * a[2]
RLt(a, b) == a[1] * b[2] < b[1] * a[2]
\* Math.floor(n * s) for an integer n and a rational s >= 0
FloorMul(n, s) == (n * s[1]) \div s[2]

RECURSIVE SeqMax(_, _)
SeqMax(s, acc) == IF s = <<>> THEN acc ELSE SeqMax(Tail(s), Max2(acc, Head(s)))

(* ------------------------------------------------------------------ *)
(* Powers of two (atlas-lib.mjs)                                        *)
(* ------------------------------------------------------------------ *)
RECURSIVE Pow2Up(_, _)
Pow2Up(p, n) == IF p < n THEN Pow2Up(2 * p, n) ELSE p
RECURSIVE Pow2Down(_, _)
Pow2Down(p, n) == IF 2 * p <= n THEN Pow2Down(2 * p, n) ELSE p

\* let p = 1; while (p < n) p <<= 1; return p
nextPow2(n) == Pow2Up(1, n)
nextPow2Ceil(n) == Pow2Up(1, n)
\* let p = 1; while (p * 2 <= n) p *= 2; return p
nearestPow2(n) == Pow2Down(1, n)
clampPow2(n, min, max) == Max2(min, Min2(max, nearestPow2(n)))

IsPow2(n) == n >= 1 /\ nextPow2(n) = n

\* the value NaN of a JavaScript number: every comparison with it is false,
\* so nearestPow2(NaN) = 1, exactly as for this sentinel
NaN == 0 - 1

MinAtlas == 256
AllowedSizes == <<256, 512, 1024, 2048, 4096>>

(* ------------------------------------------------------------------ *)
(* Texture Sizer                                                        *)
(* ------------------------------------------------------------------ *)
\* rel >= num/den where rel = matArea / maxMatArea and
\* maxMatArea = Math.max(1e-6, ...areas): with no positive area rel is 0
RelAtLeast(matArea, maxMatArea, num, den) ==
  /\ maxMatArea > 0
  /\ matArea * den >= num * maxMatArea

RECURSIVE SnapAllowed(_, _, _)
\* allowed.reduce((acc, v) => (v <= target ? v : acc), allowed[0])
SnapAllowed(allowed, target, acc) ==
  IF allowed = <<>> THEN acc
  ELSE SnapAllowed(Tail(allowed), target,
                   IF Head(allowed) <= target THEN Head(allowed) ELSE acc)

suggestSizeBestFill(matArea, maxMatArea, maxSize, srcW, srcH) ==
  LET allowed == SelectSeq(AllowedSizes, LAMBDA n : n <= maxSize)
      base == nearestPow2(Min2(Min2(srcW, srcH), maxSize))
      bucket == IF RelAtLeast(matArea, maxMatArea, 3, 5) THEN 2048
                ELSE IF RelAtLeast(matArea, maxMatArea, 7, 20) THEN 1024
                ELSE IF RelAtLeast(matArea, maxMatArea, 3, 20) THEN 512
                ELSE 256
      target == Max2(base, bucket)
  IN IF allowed = <<>>
       THEN NaN     \* Math.max(undefined, ...) of the empty allowed list
       ELSE clampPow2(SnapAllowed(allowed, target, allowed[1]), allowed[1], maxSize)

bucketsSize(matArea, maxMatArea) ==
  IF RelAtLeast(matArea, maxMatArea, 1, 2) THEN 2048
  ELSE IF RelAtLeast(matArea, maxMatArea, 1, 4) THEN 1024
  ELSE IF RelAtLeast(matArea, maxMatArea, 1, 10) THEN 512
  ELSE 256

\* the input downscale to resizeCeil ("fit inside"), atlasMap lines 614-625
ceilDownscale(w, h, resizeMode, resizeCeil) ==
  IF resizeMode = "downscale" /\ resizeCeil > 0 /\ (w > resizeCeil \/ h > resizeCeil)
    THEN LET scale == IF w >= h THEN Rat(resizeCeil, w) ELSE Rat(resizeCeil, h)
         IN [w |-> Max2(1, FloorMul(w, scale)), h |-> Max2(1, FloorMul(h, scale))]
    ELSE [w |-> w, h |-> h]

\* the target size of one texture, atlasMap lines 627-652
targetSize(w0, h0, matArea, maxMatArea, haveAreas, maxSize, sizeMode, resizeMode, resizeCeil) ==
  LET d == ceilDownscale(w0, h0, resizeMode, resizeCeil)
      t0 == nearestPow2(Min2(d.w, maxSize))
      t1 == IF haveAreas
              THEN IF sizeMode = "best-fill"
                     THEN suggestSizeBestFill(matArea, maxMatArea, maxSize, d.w, d.h)
                     ELSE bucketsSize(matArea, maxMatArea)
              ELSE t0
      t2 == clampPow2(t1, MinAtlas, maxSize)
  IN Min2(t2, nearestPow2(Max2(1, Min2(d.w, d.h))))

(* ------------------------------------------------------------------ *)
(* The rectangle packer.  new MaxRectsPacker(size, size, padding,       *)
(* {smart, allowRotation: false}).addArray(rects) is the external       *)
(* maxrects-packer library; it is modelled by its contract: rects are   *)
(* taken largest edge first (stable), each goes to the first bin with   *)
(* room, never rotated, never overlapping, padding pixels apart, inside *)
(* size x size; a bin reports the extent it uses ("smart"); a rect      *)
(* larger than the bin gets an oversized bin of its own.  Placement in  *)
(* a bin is by rows (shelves).                                          *)
(* ------------------------------------------------------------------ *)
MaxEdge(it) == Max2(it.width, it.height)

RECURSIVE InsertByEdge(_, _)
InsertByEdge(sorted, it) ==
  IF sorted = <<>> THEN <<it>>
  ELSE IF MaxEdge(Head(sorted)) >= MaxEdge(it)
         THEN <<Head(sorted)>> \o InsertByEdge(Tail(sorted), it)
         ELSE <<it>> \o sorted

RECURSIVE SortByEdge(_, _)
SortByEdge(items, acc) ==
  IF items = <<>> THEN acc ELSE SortByEdge(Tail(items), InsertByEdge(acc, Head(items)))

PlacedRect(it, x, y) ==
  [x |-> x, y |-> y, width |-> it.width, height |-> it.height,
   data |-> it.data, materials |-> <<>>]

NewBin(it, padding) ==
  [width |-> it.width, height |-> it.height, rects |-> <<PlacedRect(it, 0, 0)>>,
   shelfY |-> 0, shelfH |-> it.height, curX |-> it.width + padding, oversized |-> FALSE]

OversizedBin(it) ==
  [width |-> it.width, height |-> it.height, rects |-> <<PlacedRect(it, 0, 0)>>,
   shelfY |-> 0, shelfH |-> it.height, curX |-> it.width, oversized |-> TRUE]

FitsOnShelf(bin, it, size) ==
  /\ ~bin.oversized
  /\ bin.curX + it.width <= size
  /\ it.height <= bin.shelfH
  /\ bin.shelfY + it.height <= size

FitsOnNewShelf(bin, it, size, padding) ==
  /\ ~bin.oversized
  /\ it.width <= size
  /\ bin.shelfY + bin.shelfH + padding + it.height <= size

BinAccepts(bin, it, size, padding) ==
  FitsOnShelf(bin, it, size) \/ FitsOnNewShelf(bin, it, size, padding)

BinAdd(bin, it, size, padding) ==
  IF FitsOnShelf(bin, it, size)
    THEN [bin EXCEPT !.rects = Append(@, PlacedRect(it, bin.curX, bin.shelfY)),
                     !.curX = bin.curX + it.width + padding,
                     !.width = Max2(@, bin.curX + it.width),
                     !.height = Max2(@, bin.shelfY + it.height)]
    ELSE LET y == bin.shelfY + bin.shelfH + padding
         IN [bin EXCEPT !.rects = Append(@, PlacedRect(it, 0, y)),
                        !.shelfY = y, !.shelfH = it.height,
                        !.curX = it.width + padding,
                        !.width = Max2(@, it.width),
                        !.height = Max2(@, y + it.height)]

RECURSIVE FirstAccepting(_, _, _, _, _)
FirstAccepting(bins, i, it, size, padding) ==
  IF i > Len(bins) THEN 0
  ELSE IF BinAccepts(bins[i], it, size, padding) THEN i
  ELSE FirstAccepting(bins, i + 1, it, size, padding)

PackerAdd(bins, it, size, padding) ==
  IF it.width > size \/ it.height > size
    THEN Append(bins, OversizedBin(it))
    ELSE LET i == FirstAccepting(bins, 1, it, size, padding)
         IN IF i = 0 THEN Append(bins, NewBin(it, padding))
            ELSE [bins EXCEPT ![i] = BinAdd(bins[i], it, size, padding)]

RECURSIVE PackerAddAll(_, _, _, _)
PackerAddAll(bins, items, size, padding) ==
  IF items = <<>> THEN bins
  ELSE PackerAddAll(PackerAdd(bins, Head(items), size, padding), Tail(items), size, padding)

MaxRectsPacker(items, size, padding) ==
  PackerAddAll(<<>>, SortByEdge(items, <<>>), size, padding)

(* ------------------------------------------------------------------ *)
(* Atlas Packer (library)                                               *)
(* ------------------------------------------------------------------ *)
RECURSIVE ItemsMaxDim(_, _)
\* rects.reduce((m, r) => Math.max(m, r.width, r.height), 1)
ItemsMaxDim(items, m) ==
  IF items = <<>> THEN m ELSE ItemsMaxDim(Tail(items), Max2(m, MaxEdge(Head(items))))

RECURSIVE packLoop(_, _, _, _, _)
\* while (size <= maxSize) { pack; if (bins <= maxBins) return; size *= 2 } throw
packLoop(items, size, maxSize, padding, maxBins) ==
  IF size <= maxSize
    THEN LET bins == MaxRectsPacker(items, size, padding)
         IN IF Len(bins) <= maxBins
              THEN [ok |-> TRUE, size |-> size, bins |-> bins]
              ELSE packLoop(items, 2 * size, maxSize, padding, maxBins)
    ELSE [ok |-> FALSE, size |-> size, bins |-> <<>>]

\* a search that tries the largest size only
packIntoAtlas_MaxSizeOnly(items, maxSize, padding, maxBins) ==
  packLoop(items, Max2(maxSize, nextPow2(Max2(ItemsMaxDim(items, 1), MinAtlas))), maxSize,
           padding, maxBins)

packIntoAtlas(items, maxSize, padding, maxBins) ==
  packLoop(items, nextPow2(Max2(ItemsMaxDim(items, 1), MinAtlas)), maxSize, padding, maxBins)

ScaleItem(it, scale) ==
  [it EXCEPT !.width = Max2(1, FloorMul(it.width, scale)),
             !.height = Max2(1, FloorMul(it.height, scale))]

ScaleItems(items, scale) == [i \in 1..Len(items) |-> ScaleItem(items[i], scale)]

\* a thrown packIntoAtlas is caught and reported as false
canPack(items, maxSize, padding, maxBins, scale) ==
  packIntoAtlas(ScaleItems(items, scale), maxSize, padding, maxBins).ok

MinScale == <<1, 100>>
Half == <<1, 2>>
SearchIterations == 10

RECURSIVE seedHigh(_, _, _, _)
\* while (high > 0.01 && !canPack(.., high)) high *= 0.5
seedHigh(items, maxSize, padding, high) ==
  IF RLt(MinScale, high) /\ ~canPack(items, maxSize, padding, 1, high)
    THEN seedHigh(items, maxSize, padding, RMul(high, Half))
    ELSE high

RECURSIVE bisect(_, _, _, _, _, _, _)
bisect(items, maxSize, padding, low, high, best, i) ==
  IF i >= SearchIterations THEN best
  ELSE LET mid == RMul(RAdd(low, high), Half)
       IN IF canPack(items, maxSize, padding, 1, mid)
            THEN bisect(items, maxSize, padding, mid, high, mid, i + 1)
            ELSE bisect(items, maxSize, padding, low, mid, best, i + 1)

findBestScaleForSingleBin(items, maxSize, padding) ==
  IF canPack(items, maxSize, padding, 1, RInt(1))
    THEN [ok |-> TRUE, scale |-> RInt(1)]
    ELSE LET high == seedHigh(items, maxSize, padding, RInt(1))
         IN IF RLe(high, MinScale) /\ ~canPack(items, maxSize, padding, 1, high)
              THEN [ok |-> FALSE, scale |-> high]
              ELSE [ok |-> TRUE,
                    scale |-> bisect(items, maxSize, padding, RInt(0), high, high, 0)]

\* resizePackInputToScale: the item and its entry both take the scaled size
resizePackInputToScale(items, scale) ==
  [i \in 1..Len(items) |->
     LET w == Max2(1, FloorMul(items[i].width, scale))
         h == Max2(1, FloorMul(items[i].height, scale))
     IN [items[i] EXCEPT !.width = w, !.height = h,
                         !.data = [@ EXCEPT !.width = w, !.height = h]]]

(* ------------------------------------------------------------------ *)
(* Single-atlas packer of the browser worker                            *)
(* ------------------------------------------------------------------ *)
WorkerScales ==
  <<<<1, 1>>, <<17, 20>>, <<3, 4>>, <<13, 20>>, <<1, 2>>,
    <<7, 20>>, <<1, 4>>, <<1, 5>>, <<3, 20>>, <<1, 10>>>>

WorkerBin(size, bin) ==
  [width |-> size, height |-> size,
   rects |-> [i \in 1..Len(bin.rects) |->
                [bin.rects[i] EXCEPT !.materials = bin.rects[i].data.materials]]]

RECURSIVE workerGrow(_, _, _, _)
\* while (true) { pack; if (one bin holding all) return; if (size >= maxSize) break; size = min(maxSize, 2 size) }
workerGrow(scaled, size, maxSize, padding) ==
  LET bins == MaxRectsPacker(scaled, size, padding)
  IN IF Len(bins) = 1 /\ Len(bins[1].rects) = Len(scaled)
       THEN [ok |-> TRUE, size |-> size, bins |-> <<WorkerBin(size, bins[1])>>]
       ELSE IF size >= maxSize
         THEN [ok |-> FALSE, size |-> size, bins |-> <<>>]
         ELSE workerGrow(scaled, Min2(maxSize, 2 * size), maxSize, padding)

RECURSIVE workerLadder(_, _, _, _)
workerLadder(items, scales, maxSize, padding) ==
  IF scales = <<>> THEN [ok |-> FALSE, size |-> 0, bins |-> <<>>]
  ELSE LET scaled == ScaleItems(items, Head(scales))
           size == Min2(nextPow2(ItemsMaxDim(scaled, 0)), maxSize)
           r == workerGrow(scaled, size, maxSize, padding)
       IN IF r.ok THEN r ELSE workerLadder(items, Tail(scales), maxSize, padding)

packIntoSingleAtlasWithDownscale(items, maxSize, padding) ==
  workerLadder(items, WorkerScales, maxSize, padding)

(* ------------------------------------------------------------------ *)
(* The document (the glTF-Transform objects the library reads/writes)   *)
(*   material : [name, tex : slot -> texture id or 0, tc : slot -> n]   *)
(*   texture  : [atlas, map, bin, w, h]                                 *)
(*   primitive: [mat, attr : texcoord set -> accessor id or 0, area]    *)
(*   accessor : sequence of UV pairs <<u, v>> of rationals              *)
(* ------------------------------------------------------------------ *)
MAPS_SUPPORTED == <<"basecolor", "normal", "orm", "emissive">>
Slots == {"basecolor", "normal", "mr", "occ", "emissive"}
TexSets == {0, 1}

InSeq(x, s) == \E i \in 1..Len(s) : s[i] = x

getter(map, mat) ==
  IF map = "orm" THEN (IF mat.tex["mr"] # 0 THEN mat.tex["mr"] ELSE mat.tex["occ"])
  ELSE mat.tex[map]

setter(map, mat, tex) ==
  IF map = "orm" THEN [mat EXCEPT !.tex["mr"] = tex, !.tex["occ"] = tex]
  ELSE [mat EXCEPT !.tex[map] = tex]

\* getXxxTextureInfo() is null while the slot holds no texture
texInfoSetter(map, mat) ==
  IF map = "orm"
    THEN (IF mat.tex["mr"] # 0 THEN "mr" ELSE IF mat.tex["occ"] # 0 THEN "occ" ELSE "none")
    ELSE (IF mat.tex[map] # 0 THEN map ELSE "none")

\* (m.getName() || '(unnamed)')
DisplayName(mat) == IF mat.name = "" THEN "(unnamed)" ELSE mat.name

RECURSIVE findMaterialFrom(_, _, _)
findMaterialFrom(name, materials, i) ==
  IF i > Len(materials) THEN 0
  ELSE IF DisplayName(materials[i]) = name THEN i
  ELSE findMaterialFrom(name, materials, i + 1)

\* the first material of that name, 0 for null
findMaterialByName(name, materials) ==
  IF name = "" THEN 0 ELSE findMaterialFrom(name, materials, 1)

RECURSIVE findEntryFrom(_, _, _, _)
findEntryFrom(name, entries, materials, i) ==
  IF i > Len(entries) THEN 0
  ELSE IF \E k \in 1..Len(entries[i].materials) :
            DisplayName(materials[entries[i].materials[k]]) = name
         THEN i
  ELSE findEntryFrom(name, entries, materials, i + 1)

\* index of the first entry one of whose materials has that name, 0 for null
findEntryForMaterial(name, entries, materials) ==
  IF name = "" THEN 0 ELSE findEntryFrom(name, entries, materials, 1)

RECURSIVE SumAreas(_, _, _)
SumAreas(doc, name, i) ==
  IF i > Len(doc.prims) THEN 0
  ELSE (IF doc.materials[doc.prims[i].mat].name = name THEN doc.prims[i].area ELSE 0)
       + SumAreas(doc, name, i + 1)

\* computeMaterialAreas: areas summed per material name
materialArea(doc, name) == SumAreas(doc, name, 1)
maxMatArea(doc) ==
  SeqMax([i \in 1..Len(doc.prims) |->
            materialArea(doc, doc.materials[doc.prims[i].mat].name)], 0)

RECURSIVE entryOfTexture(_, _, _)
entryOfTexture(entries, tex, i) ==
  IF i > Len(entries) THEN 0
  ELSE IF entries[i].texture = tex THEN i
  ELSE entryOfTexture(entries, tex, i + 1)

RECURSIVE buildEntries(_, _, _, _)
\* for (const mat of materials): one entry per distinct texture of the channel
buildEntries(doc, o, i, entries) ==
  IF i > Len(doc.materials) THEN entries
  ELSE LET mat == doc.materials[i]
           tex == getter(o.map, mat)
           e == entryOfTexture(entries, tex, 1)
       IN IF tex = 0 THEN buildEntries(doc, o, i + 1, entries)
          ELSE IF e # 0
            THEN buildEntries(doc, o, i + 1,
                              [entries EXCEPT ![e].materials = Append(@, i)])
            ELSE LET t == targetSize(doc.textures[tex].w, doc.textures[tex].h,
                                     materialArea(doc, mat.name), maxMatArea(doc),
                                     Len(doc.prims) > 0, o.maxSize, o.sizeMode,
                                     o.resizeMode, o.resizeCeil)
                 IN buildEntries(doc, o, i + 1,
                      Append(entries, [texture |-> tex, width |-> t, height |-> t,
                                       materials |-> <<i>>]))

packInputOf(entries) ==
  [i \in 1..Len(entries) |->
     [id |-> i - 1, width |-> entries[i].width, height |-> entries[i].height,
      data |-> entries[i]]]

\* names of material ids, empty names dropped: .map(getName).filter(Boolean)
RECURSIVE materialNames(_, _)
materialNames(ids, materials) ==
  IF ids = <<>> THEN <<>>
  ELSE (IF materials[Head(ids)].name = "" THEN <<>> ELSE <<materials[Head(ids)].name>>)
       \o materialNames(Tail(ids), materials)

\* names resolved to materials, unresolved ones dropped
RECURSIVE resolveNames(_, _)
resolveNames(names, materials) ==
  IF names = <<>> THEN <<>>
  ELSE (IF findMaterialByName(Head(names), materials) = 0 THEN <<>>
        ELSE <<findMaterialByName(Head(names), materials)>>)
       \o resolveNames(Tail(names), materials)

(* Cross-Map Rect Reuser: atlasMap lines 687-722 *)
reuseRect(r, entries, materials) ==
  LET resolvedMats == resolveNames(r.materials, materials)
      e == findEntryForMaterial(IF r.materials = <<>> THEN "" ELSE r.materials[1],
                                entries, materials)
      entry == IF e = 0
                 THEN [texture |-> 0, width |-> r.width, height |-> r.height,
                       materials |-> resolvedMats]
                 ELSE [entries[e] EXCEPT !.materials =
                         IF resolvedMats # <<>> THEN resolvedMats ELSE entries[e].materials]
  IN [x |-> r.x, y |-> r.y, width |-> r.width, height |-> r.height,
      data |-> entry, materials |-> r.materials]

reuseBins(reuseRects, entries, materials) ==
  LET s == Max2(reuseRects.size.width, reuseRects.size.height)
      atlasSize == nextPow2Ceil(Max2(s, MinAtlas))
  IN [ok |-> TRUE, size |-> atlasSize,
      bins |-> <<[width |-> atlasSize, height |-> atlasSize,
                  rects |-> [i \in 1..Len(reuseRects.rects) |->
                               reuseRect(reuseRects.rects[i], entries, materials)]]>>]

\* a real pack of the unscaled input, whatever scale the search returned
packBins_Unscaled(o, packInput) ==
  LET targetBins == IF o.maxBins < 1 THEN 1 ELSE o.maxBins
      best == IF targetBins = 1 /\ o.resizeMode = "downscale"
                THEN findBestScaleForSingleBin(packInput, o.maxSize, o.padding)
                ELSE [ok |-> TRUE, scale |-> RInt(1)]
  IN IF ~best.ok THEN [ok |-> FALSE, size |-> 0, bins |-> <<>>]
     ELSE packIntoAtlas(packInput, o.maxSize, o.padding, targetBins)

(* packing path: atlasMap lines 723-735 *)
packBins(o, packInput) ==
  LET targetBins == IF o.maxBins < 1 THEN 1 ELSE o.maxBins
      best == IF targetBins = 1 /\ o.resizeMode = "downscale"
                THEN findBestScaleForSingleBin(packInput, o.maxSize, o.padding)
                ELSE [ok |-> TRUE, scale |-> RInt(1)]
      scaledInput == IF best.scale = RInt(1) THEN packInput
                     ELSE resizePackInputToScale(packInput, best.scale)
  IN IF ~best.ok THEN [ok |-> FALSE, size |-> 0, bins |-> <<>>]
     ELSE packIntoAtlas(scaledInput, o.maxSize, o.padding, targetBins)

(* per-bin loop: atlasMap lines 745-863 *)
\* the materials a rect maps: rect.data.materials if any, else rect.materials by name
rectMaterials(rect, materials) ==
  IF rect.data.materials # <<>> THEN rect.data.materials
  ELSE resolveNames(rect.materials, materials)

\* a texture-info without the KHR_texture_transform extension; a transform is
\* [present, offset, scale, rot], rot being <<cos(rotation), sin(rotation)>>
NoXf == [present |-> FALSE, offset |-> <<RInt(0), RInt(0)>>,
         scale |-> <<RInt(1), RInt(1)>>, rot |-> <<RInt(1), RInt(0)>>]

\* hasTransform, with the extension registered on the document
mappingOf(map, mat, rect, atlasTex, binIndex, size) ==
  LET info == texInfoSetter(map, mat)
  IN [rect |-> [x |-> rect.x, y |-> rect.y, width |-> rect.width, height |-> rect.height],
      atlasTex |-> atlasTex, atlasIndex |-> binIndex,
      width |-> size, height |-> size,
      texCoordIndex |-> IF info = "none" THEN 0 ELSE mat.tc[info],
      info |-> info,
      hasTransform |-> IF info = "none" THEN FALSE ELSE mat.xf[info].present]

RECURSIVE mapMaterials(_, _, _, _, _, _, _)
\* mats.forEach((mat) => materialMap.set(mat, {...})): a later set replaces an earlier one
mapMaterials(mm, mats, map, materials, rect, atlasTex, binInfo) ==
  IF mats = <<>> THEN mm
  ELSE mapMaterials((Head(mats) :> mappingOf(map, materials[Head(mats)], rect, atlasTex,
                                             binInfo[1], binInfo[2])) @@ mm,
                    Tail(mats), map, materials, rect, atlasTex, binInfo)

RECURSIVE mapRects(_, _, _, _, _, _)
mapRects(mm, rects, map, materials, atlasTex, binInfo) ==
  IF rects = <<>> THEN mm
  ELSE mapRects(mapMaterials(mm, rectMaterials(Head(rects), materials), map, materials,
                             Head(rects), atlasTex, binInfo),
                Tail(rects), map, materials, atlasTex, binInfo)

layoutRect(r, materials) ==
  [texture |-> r.data.texture, materials |-> materialNames(r.data.materials, materials),
   x |-> r.x, y |-> r.y, width |-> r.width, height |-> r.height]

RECURSIVE binLoop(_, _, _, _, _, _)
\* acc = [textures, materialMap, atlases, atlasTexRefs]
binLoop(bins, binIndex, atlasSize, map, materials, acc) ==
  IF binIndex >= Len(bins) THEN acc
  ELSE LET bin == bins[binIndex + 1]
           bw == IF bin.width # 0 THEN bin.width ELSE atlasSize
           bh == IF bin.height # 0 THEN bin.height ELSE atlasSize
           squareSize == nextPow2Ceil(Max2(Max2(bw, bh), atlasSize))
           atlasTex == Len(acc.textures) + 1
       IN binLoop(bins, binIndex + 1, squareSize, map, materials,
            [textures |-> Append(acc.textures,
                                 [atlas |-> TRUE, map |-> map, bin |-> binIndex,
                                  w |-> squareSize, h |-> squareSize]),
             materialMap |-> mapRects(acc.materialMap, bin.rects, map, materials,
                                      atlasTex, <<binIndex, squareSize>>),
             atlases |-> Append(acc.atlases,
                                [index |-> binIndex, width |-> squareSize,
                                 height |-> squareSize,
                                 rects |-> [i \in 1..Len(bin.rects) |->
                                              layoutRect(bin.rects[i], materials)]]),
             atlasTexRefs |-> Append(acc.atlasTexRefs, atlasTex)])

(* UV Remapper *)
\* a remap that scales into the rect but leaves the rect's offset out
remapUV_NoOffset(uv, rect, aw, ah) ==
  <<RMul(uv[1], Rat(rect.width, aw)), RMul(uv[2], Rat(rect.height, ah))>>

\* u' = u * (rect.width / aw) + rect.x / aw ;  v' = v * (rect.height / ah) + rect.y / ah
remapUV(uv, rect, aw, ah) ==
  <<RAdd(RMul(uv[1], Rat(rect.width, aw)), Rat(rect.x, aw)),
    RAdd(RMul(uv[2], Rat(rect.height, ah)), Rat(rect.y, ah))>>

remapArray(arr, rect, aw, ah) == [i \in 1..Len(arr) |-> remapUV(arr[i], rect, aw, ah)]

\* a remap loop body that writes into the accessor it read, without the clone
remapPrim_InPlace(doc, map, mm, i) ==
  LET prim == doc.prims[i]
      mapping == mm[prim.mat]
      uvSet == mapping.texCoordIndex
      src == IF uvSet \in TexSets THEN prim.attr[uvSet] ELSE 0
      dst == remapArray(doc.accessors[src], mapping.rect, mapping.width, mapping.height)
      mat1 == setter(map, doc.materials[prim.mat], mapping.atlasTex)
      infoNow == IF mapping.info # "none" THEN mapping.info ELSE texInfoSetter(map, mat1)
      mat2 == IF infoNow = "none" THEN mat1 ELSE [mat1 EXCEPT !.tc[infoNow] = 0]
  IN IF prim.mat \notin DOMAIN mm \/ src = 0 THEN doc
     ELSE [doc EXCEPT !.accessors[src] = dst,
                      !.prims[i].attr = [k \in TexSets |->
                                           IF k = uvSet \/ k = 0 THEN src ELSE prim.attr[k]],
                      !.materials[prim.mat] = mat2]

\* bakeTextureTransformInPlace(arr, t): scale, rotate about the origin, offset;
\* nothing if t is null (not present)
bakeTextureTransformInPlace(arr, t) ==
  IF ~t.present THEN arr
  ELSE [i \in 1..Len(arr) |->
          LET u == RMul(arr[i][1], t.scale[1])
              v == RMul(arr[i][2], t.scale[2])
          IN <<RAdd(RAdd(RMul(u, t.rot[1]), RMul(RInt(0 - 1), RMul(v, t.rot[2]))),
                    t.offset[1]),
               RAdd(RAdd(RMul(u, t.rot[2]), RMul(v, t.rot[1])), t.offset[2])>>]

\* one primitive of the remap loop, atlasMap lines 869-959.  With hasTransform
\* the clone of the source stays on the set it was read from and the baked
\* copy goes to TEXCOORD_<nextTexcoordIndex>, which is 0: nextTexcoordIndex
\* matches the accessors' names, and the accessors of the model are unnamed
remapPrim(doc, map, mm, i) ==
  LET prim == doc.prims[i]
      mapping == mm[prim.mat]
      uvSet == mapping.texCoordIndex
      src == IF uvSet \in TexSets THEN prim.attr[uvSet] ELSE 0
      xform == mapping.hasTransform
      t == doc.materials[prim.mat].xf[mapping.info]
      working == IF xform THEN bakeTextureTransformInPlace(doc.accessors[src], t)
                 ELSE doc.accessors[src]
      uvAcc == Len(doc.accessors) + (IF xform THEN 2 ELSE 1)
      dst == remapArray(working, mapping.rect, mapping.width, mapping.height)
      mat0 == IF xform THEN [doc.materials[prim.mat] EXCEPT !.xf[mapping.info] = NoXf]
              ELSE doc.materials[prim.mat]
      mat1 == setter(map, mat0, mapping.atlasTex)
      infoNow == IF mapping.info # "none" THEN mapping.info ELSE texInfoSetter(map, mat1)
      mat2 == IF infoNow = "none" THEN mat1 ELSE [mat1 EXCEPT !.tc[infoNow] = 0]
  IN IF prim.mat \notin DOMAIN mm \/ src = 0 THEN doc
     ELSE [doc EXCEPT !.accessors = IF xform THEN @ \o <<doc.accessors[src], dst>>
                                     ELSE Append(@, dst),
                      !.prims[i].attr = [k \in TexSets |->
                                           IF k = 0 THEN uvAcc
                                           ELSE IF k = uvSet THEN Len(doc.accessors) + 1
                                           ELSE prim.attr[k]],
                      !.materials[prim.mat] = mat2]

RECURSIVE remapLoop(_, _, _, _)
remapLoop(doc, map, mm, i) ==
  IF i > Len(doc.prims) THEN doc
  ELSE remapLoop(remapPrim(doc, map, mm, i), map, mm, i + 1)

RECURSIVE firstAtlasTexture(_, _, _)
\* listTextures().find((t) => t.getName().startsWith(`Atlas_${map}`)), 0 for undefined
firstAtlasTexture(textures, map, i) ==
  IF i > Len(textures) THEN 0
  ELSE IF textures[i].atlas /\ textures[i].map = map THEN i
  ELSE firstAtlasTexture(textures, map, i + 1)

RECURSIVE rewireLoop(_, _, _, _)
\* rewire-only branch, atlasMap lines 961-968
rewireLoop(doc, map, tex, i) ==
  IF i > Len(doc.prims) THEN doc
  ELSE rewireLoop([doc EXCEPT !.materials[doc.prims[i].mat] = setter(map, @, tex)],
                  map, tex, i + 1)

EmptyMap == [m \in {} |-> 0]

\* The value of a one-element set: binds an intermediate result of atlasMap once.
The(S) == CHOOSE x \in S : TRUE

\* atlasMap without a result: status "skip" is the early return when the channel
\* has no texture, "throw" a packing failure
atlasMapSkipped(doc, o, status) ==
  [status |-> status, doc |-> doc, layoutInfo |-> [map |-> o.map, atlases |-> <<>>],
   atlasTexRefs |-> <<>>, materialMap |-> EmptyMap]

\* The remap loop (or, with remapUVs off, the rewire loop) over the bins' result.
atlasMapRemap(doc, o, acc) ==
  LET doc1 == [doc EXCEPT !.textures = acc.textures]
  IN [status |-> "ok",
      doc |-> IF o.remapUVs THEN remapLoop(doc1, o.map, acc.materialMap, 1)
              ELSE rewireLoop(doc1, o.map, firstAtlasTexture(doc1.textures, o.map, 1), 1),
      layoutInfo |-> [map |-> o.map, atlases |-> acc.atlases],
      atlasTexRefs |-> acc.atlasTexRefs, materialMap |-> acc.materialMap]

\* The bin loop over the packed (or reused) bins.
atlasMapBins(doc, o, packed) ==
  IF ~packed.ok THEN atlasMapSkipped(doc, o, "throw")
  ELSE The({atlasMapRemap(doc, o, acc) :
              acc \in {binLoop(packed.bins, 0, packed.size, o.map, doc.materials,
                               [textures |-> doc.textures, materialMap |-> EmptyMap,
                                atlases |-> <<>>, atlasTexRefs |-> <<>>])}})

\* Packing of the entries, or reuse of the given layout.
atlasMapPack(doc, o, entries) ==
  IF entries = <<>> THEN atlasMapSkipped(doc, o, "skip")
  ELSE The({atlasMapBins(doc, o, packed) :
              packed \in {IF o.reuse.present
                            THEN reuseBins(o.reuse, entries, doc.materials)
                            ELSE packBins(o, packInputOf(entries))}})

\* atlasMap(doc, opts): entries, then packing or reuse, the bin loop, the remap
atlasMap(doc, o) ==
  The({atlasMapPack(doc, o, entries) : entries \in {buildEntries(doc, o, 1, <<>>)}})

(* ------------------------------------------------------------------ *)
(* processAtlas as a state machine: one step per channel pass           *)
(* ------------------------------------------------------------------ *)
VARIABLES
  opts,           \* the options of the call
  materials, textures, prims, accessors,   \* the document
  pc,             \* "idle", "canonical", "reuse", "done", "failed"
  run,            \* number of the processAtlas call on this document
  validMaps, canonicalMap, mapIdx,
  layout, atlasTextures, canonicalRects, canonicalSize,
  materialMaps,   \* per channel pass of this call, the pass's materialMap
  pre,            \* the document as it was when the call began
  unit            \* a single function application: [kind, in, out], or <<>>

vars == <<opts, materials, textures, prims, accessors, pc, run, validMaps, canonicalMap,
          mapIdx, layout, atlasTextures, canonicalRects, canonicalSize, materialMaps, pre,
          unit>>

Doc == [materials |-> materials, textures |-> textures, prims |-> prims,
        accessors |-> accessors]

\* no lowering of the requested names
toLowerCase_Identity(m) == m

\* m.toLowerCase()
toLowerCase(m) == IF m = "baseColor" THEN "basecolor" ELSE m

NoSize == [width |-> 0, height |-> 0]

passOpts(map, remap, reuse) ==
  [map |-> map, maxSize |-> opts.maxSize, padding |-> opts.padding,
   maxBins |-> opts.maxBins, resizeMode |-> opts.resizeMode,
   resizeCeil |-> opts.resizeCeil, sizeMode |-> opts.sizeMode,
   remapUVs |-> remap, reuse |-> reuse]

\* the options of the canonical pass: remapUVs: true, reuseRects: null
canonicalOpts(map) ==
  passOpts(map, TRUE, [present |-> FALSE, rects |-> <<>>, size |-> NoSize])

\* options of a reuse pass that leave remapUVs at its default, true
reuseOpts_Remapping(map) ==
  passOpts(map, TRUE, [present |-> TRUE, rects |-> canonicalRects, size |-> canonicalSize])

\* the options of every other pass: reuseRects: {rects, size}, remapUVs: false
reuseOpts(map) ==
  passOpts(map, FALSE, [present |-> TRUE, rects |-> canonicalRects, size |-> canonicalSize])

SetDoc(d) ==
  /\ materials' = d.materials
  /\ textures' = d.textures
  /\ prims' = d.prims
  /\ accessors' = d.accessors

\* processAtlas lines 176-203: filter the maps, choose the canonical one
Begin ==
  /\ pc = "idle"
  /\ LET lowerMaps == [i \in 1..Len(opts.maps) |-> toLowerCase(opts.maps[i])]
         valid == SelectSeq(lowerMaps, LAMBDA m : InSeq(m, MAPS_SUPPORTED))
     IN /\ validMaps' = valid
        /\ canonicalMap' = IF valid = <<>> THEN "" 
                           ELSE IF InSeq("basecolor", valid) THEN "basecolor" ELSE valid[1]
        /\ pc' = IF valid = <<>> THEN "done" ELSE "canonical"
  /\ mapIdx' = 1
  /\ layout' = <<>>
  /\ atlasTextures' = EmptyMap
  /\ canonicalRects' = <<>>
  /\ canonicalSize' = NoSize
  /\ materialMaps' = EmptyMap
  /\ pre' = Doc
  /\ UNCHANGED <<opts, materials, textures, prims, accessors, run, unit>>

\* processAtlas lines 204-226: the canonical pass packs and remaps the UVs;
\* a pass without a result makes canonicalResult.layoutInfo throw
CanonicalPass ==
  /\ pc = "canonical"
  /\ \E r \in {atlasMap(Doc, canonicalOpts(canonicalMap))} :
        IF r.status # "ok"
          THEN /\ pc' = "failed"
               /\ UNCHANGED <<materials, textures, prims, accessors, layout, atlasTextures,
                              canonicalRects, canonicalSize, materialMaps>>
          ELSE /\ pc' = "reuse"
               /\ SetDoc(r.doc)
               /\ layout' = Append(layout, r.layoutInfo)
               /\ atlasTextures' = (canonicalMap :> r.atlasTexRefs[Len(r.atlasTexRefs)])
                                     @@ atlasTextures
               /\ canonicalRects' = r.layoutInfo.atlases[1].rects
               /\ canonicalSize' = [width |-> r.layoutInfo.atlases[1].width,
                                    height |-> r.layoutInfo.atlases[1].height]
               /\ materialMaps' = (canonicalMap :> r.materialMap) @@ materialMaps
  /\ UNCHANGED <<opts, run, validMaps, canonicalMap, mapIdx, pre, unit>>

\* processAtlas lines 229-249: one iteration of the loop over the other maps;
\* destructuring the missing result of a skipped pass throws
ReusePass ==
  /\ pc = "reuse"
  /\ mapIdx <= Len(validMaps)
  /\ \E map \in {validMaps[mapIdx]} :
     \E r \in {atlasMap(Doc, reuseOpts(map))} :
        IF map = canonicalMap
          THEN /\ mapIdx' = mapIdx + 1
               /\ UNCHANGED <<pc, materials, textures, prims, accessors, layout,
                              atlasTextures, materialMaps>>
          ELSE IF r.status # "ok"
            THEN /\ pc' = "failed"
                 /\ UNCHANGED <<mapIdx, materials, textures, prims, accessors, layout,
                                atlasTextures, materialMaps>>
            ELSE /\ mapIdx' = mapIdx + 1
                 /\ SetDoc(r.doc)
                 /\ layout' = Append(layout, r.layoutInfo)
                 /\ atlasTextures' = (map :> r.atlasTexRefs[Len(r.atlasTexRefs)])
                                       @@ atlasTextures
                 /\ materialMaps' = (map :> r.materialMap) @@ materialMaps
                 /\ UNCHANGED pc
  /\ UNCHANGED <<opts, run, validMaps, canonicalMap, canonicalRects, canonicalSize, pre,
                 unit>>

\* processAtlas line 251: return { layout, atlasTextures }
Finish ==
  /\ pc = "reuse"
  /\ mapIdx > Len(validMaps)
  /\ pc' = "done"
  /\ UNCHANGED <<opts, materials, textures, prims, accessors, run, validMaps, canonicalMap,
                 mapIdx, layout, atlasTextures, canonicalRects, canonicalSize,
                 materialMaps, pre, unit>>

MaxRuns == 2

\* processAtlas is called again on the document it returned
Rerun ==
  /\ pc = "done"
  /\ run < MaxRuns
  /\ run' = run + 1
  /\ pc' = "idle"
  /\ UNCHANGED <<opts, materials, textures, prims, accessors, validMaps, canonicalMap,
                 mapIdx, layout, atlasTextures, canonicalRects, canonicalSize,
                 materialMaps, pre, unit>>

\* the material 'Atlas_Merged' wired to the atlas textures of the call
mergedMaterial(atlasTex) ==
  LET at(m) == IF m \in DOMAIN atlasTex THEN atlasTex[m] ELSE 0
  IN [name |-> "Atlas_Merged",
      tex |-> [s \in Slots |->
                 IF s \in {"mr", "occ"} THEN at("orm") ELSE at(s)],
      tc |-> [s \in Slots |-> 0],
      xf |-> [s \in Slots |-> NoXf]]

RECURSIVE concatUVs(_, _, _)
\* the TEXCOORD_0 values of the primitives k, k + 1, ... one after the other
concatUVs(primList, accs, k) ==
  IF k > Len(primList) THEN <<>>
  ELSE accs[primList[k].attr[0]] \o concatUVs(primList, accs, k + 1)

RECURSIVE sumAreas(_, _)
sumAreas(primList, k) ==
  IF k > Len(primList) THEN 0 ELSE primList[k].area + sumAreas(primList, k + 1)

\* collapseToSingleMeshAndMaterial(doc, atlasTextures) on the document the
\* call returned.  Every primitive of the document is in the scene hierarchy
\* and has POSITION, indices and TEXCOORD_0: each gets the merged material, and
\* two or more are merged into one that keeps TEXCOORD_0 alone of the UV sets
Collapse ==
  /\ pc = "done"
  /\ materials' = <<mergedMaterial(atlasTextures)>>
  /\ IF Len(prims) <= 1
       THEN /\ prims' = [i \in 1..Len(prims) |-> [prims[i] EXCEPT !.mat = 1]]
            /\ accessors' = accessors
       ELSE /\ accessors' = Append(accessors, concatUVs(prims, accessors, 1))
            /\ prims' = <<[mat |-> 1,
                           attr |-> [k \in TexSets |->
                                       IF k = 0 THEN Len(accessors) + 1 ELSE 0],
                           area |-> sumAreas(prims, 1)]>>
  /\ pc' = "collapsed"
  /\ UNCHANGED <<opts, textures, run, validMaps, canonicalMap, mapIdx, layout,
                 atlasTextures, canonicalRects, canonicalSize, materialMaps, pre, unit>>

(* ------------------------------------------------------------------ *)
(* Inputs                                                               *)
(* ------------------------------------------------------------------ *)
MaxMats == 2
MaxPrims == 2
MaxBinsOpt == 2

\* the textures of the source document
SrcTextures ==
  <<[atlas |-> FALSE, map |-> "", bin |-> 0, w |-> 512, h |-> 512],
    [atlas |-> FALSE, map |-> "", bin |-> 0, w |-> 256, h |-> 256],
    [atlas |-> FALSE, map |-> "", bin |-> 0, w |-> 512, h |-> 256]>>

\* the UV accessors of the source document
SrcAccessors ==
  << << <<RInt(0), RInt(0)>>, <<RInt(1), RInt(0)>>, <<RInt(1), RInt(1)>> >>,
     << <<RInt(2), Rat(1, 2)>> >> >>

NoTex == [s \in Slots |-> 0]

\* a material with a base color texture bc sampling UV set tcb and a normal
\* texture nm sampling UV set tcn (texture 0: none)
Material(name, bc, nm, tcb, tcn) ==
  [name |-> name,
   tex |-> [NoTex EXCEPT !["basecolor"] = bc, !["normal"] = nm],
   tc |-> [s \in Slots |-> IF s = "basecolor" /\ bc # 0 THEN tcb
                           ELSE IF s = "normal" /\ nm # 0 THEN tcn ELSE 0],
   xf |-> [s \in Slots |-> NoXf]]

\* the materials a source document is made of: named or unnamed, with and
\* without a texture in each channel, sampling UV set 0 or 1
MaterialChoices ==
  {Material("a", 1, 3, 0, 1), Material("a", 2, 0, 1, 0), Material("", 2, 3, 1, 1),
   Material("b", 0, 3, 0, 0), Material("c", 2, 3, 0, 0)}

\* a primitive has TEXCOORD_0, and may have TEXCOORD_1
PrimChoices ==
  {[mat |-> m, attr |-> a, area |-> 1] :
     m \in 1..MaxMats,
     a \in {(0 :> 1) @@ (1 :> 0), (0 :> 1) @@ (1 :> 2)}}

MapLists ==
  {<<"baseColor", "normal">>, <<"normal", "unlit", "basecolor">>, <<"normal">>,
   <<"unlit">>}

OptChoices ==
  [maps : MapLists, maxSize : {512, 1024}, padding : {2}, maxBins : 1..MaxBinsOpt,
   resizeMode : {"downscale"}, resizeCeil : {4096}, sizeMode : {"best-fill"},
   texcoord : {0}]

IdleCall ==
  /\ pc = "idle"
  /\ run = 1
  /\ validMaps = <<>>
  /\ canonicalMap = ""
  /\ mapIdx = 1
  /\ layout = <<>>
  /\ atlasTextures = EmptyMap
  /\ canonicalRects = <<>>
  /\ canonicalSize = NoSize
  /\ materialMaps = EmptyMap

Init ==
  /\ opts \in OptChoices
  /\ materials \in [1..MaxMats -> MaterialChoices]
  /\ textures = SrcTextures
  /\ prims \in UNION {[1..n -> PrimChoices] : n \in 1..MaxPrims}
  /\ accessors = SrcAccessors
  /\ IdleCall
  /\ pre = Doc
  /\ unit = <<>>

Next == Begin \/ CanonicalPass \/ ReusePass \/ Finish \/ Rerun \/ Collapse

Spec == Init /\ [][Next]_vars

(* ------------------------------------------------------------------ *)
(* The browser worker's remap                                           *)
(* ------------------------------------------------------------------ *)
\* invSize = atlasSize ? 1 / atlasSize : 1;
\* arr[i] = (rect.x + u * rect.width) * invSize; arr[i+1] = (rect.y + v * rect.height) * invSize
remapUVsInPlace(arr, rect, atlasSize) ==
  LET invSize == IF atlasSize # 0 THEN Rat(1, atlasSize) ELSE RInt(1)
  IN [i \in 1..Len(arr) |->
        <<RMul(RAdd(RInt(rect.x), RMul(arr[i][1], RInt(rect.width))), invSize),
          RMul(RAdd(RInt(rect.y), RMul(arr[i][2], RInt(rect.height))), invSize)>>]

\* one primitive of the worker's remap loop, atlas-worker.js lines 272-284
workerRemapPrim(doc, mm, atlasSize, texcoord, i) ==
  LET prim == doc.prims[i]
      mapInfo == mm[prim.mat]
      \* texcoord || mapInfo.texCoordIndex || 0
      texCoordIndex == IF texcoord # 0 THEN texcoord ELSE mapInfo.texCoordIndex
      src == IF texCoordIndex \in TexSets THEN prim.attr[texCoordIndex] ELSE 0
      cloned == Len(doc.accessors) + 1
  IN IF prim.mat \notin DOMAIN mm \/ src = 0 THEN doc
     ELSE [doc EXCEPT !.accessors = Append(@, remapUVsInPlace(doc.accessors[src],
                                                              mapInfo.rect, atlasSize)),
                      \* TEXCOORD_0 is the clone, TEXCOORD_1.. are removed
                      !.prims[i].attr = [k \in TexSets |-> IF k = 0 THEN cloned ELSE 0]]

RECURSIVE workerRemapLoop(_, _, _, _, _)
workerRemapLoop(doc, mm, atlasSize, texcoord, i) ==
  IF i > Len(doc.prims) THEN doc
  ELSE workerRemapLoop(workerRemapPrim(doc, mm, atlasSize, texcoord, i), mm, atlasSize,
                       texcoord, i + 1)

(* ------------------------------------------------------------------ *)
(* Transform baking (bakeNodeRecursive and the functions it calls).     *)
(* A 4x4 matrix is the sequence of its 16 column-major entries, entry   *)
(* m[k] of the code being m[k + 1] here; all entries are rationals.     *)
(* ------------------------------------------------------------------ *)
RNeg(a) == <<0 - a[1], a[2]>>
\* 1 / a for a # 0
RInv(a) == IF a[1] > 0 THEN <<a[2], a[1]>> ELSE <<0 - a[2], 0 - a[1]>>
RIsZero(a) == a[1] = 0

identityMat4 ==
  <<RInt(1), RInt(0), RInt(0), RInt(0), RInt(0), RInt(1), RInt(0), RInt(0),
    RInt(0), RInt(0), RInt(1), RInt(0), RInt(0), RInt(0), RInt(0), RInt(1)>>

\* a product computed with the operands swapped: b * a
multiplyMat4_Swapped(a, b) ==
  [k \in 1..16 |->
     LET c == (k - 1) \div 4
         r == (k - 1) % 4
     IN RAdd(RAdd(RMul(b[0 * 4 + r + 1], a[c * 4 + 0 + 1]),
                  RMul(b[1 * 4 + r + 1], a[c * 4 + 1 + 1])),
             RAdd(RMul(b[2 * 4 + r + 1], a[c * 4 + 2 + 1]),
                  RMul(b[3 * 4 + r + 1], a[c * 4 + 3 + 1])))]

\* out[c * 4 + r] = sum over j of a[j * 4 + r] * b[c * 4 + j]
multiplyMat4(a, b) ==
  [k \in 1..16 |->
     LET c == (k - 1) \div 4
         r == (k - 1) % 4
     IN RAdd(RAdd(RMul(a[0 * 4 + r + 1], b[c * 4 + 0 + 1]),
                  RMul(a[1 * 4 + r + 1], b[c * 4 + 1 + 1])),
             RAdd(RMul(a[2 * 4 + r + 1], b[c * 4 + 2 + 1]),
                  RMul(a[3 * 4 + r + 1], b[c * 4 + 3 + 1])))]

\* m[i] * x + m[j] * y + m[k] * z, indices as in the code
Dot3(m, i, j, k, v) ==
  RAdd(RAdd(RMul(m[i + 1], v[1]), RMul(m[j + 1], v[2])), RMul(m[k + 1], v[3]))

\* the library's transformPoint(m, v)
transformPoint(m, v) ==
  LET rx == RAdd(Dot3(m, 0, 4, 8, v), m[13])
      ry == RAdd(Dot3(m, 1, 5, 9, v), m[14])
      rz == RAdd(Dot3(m, 2, 6, 10, v), m[15])
      rw == RAdd(Dot3(m, 3, 7, 11, v), m[16])
  IN IF ~RIsZero(rw) /\ rw # RInt(1)
       THEN <<RMul(rx, RInv(rw)), RMul(ry, RInv(rw)), RMul(rz, RInv(rw))>>
       ELSE <<rx, ry, rz>>

\* the worker's transformPoint(v, m), for a matrix whose w is not 0
workerTransformPoint(v, m) ==
  LET w == RInv(RAdd(Dot3(m, 3, 7, 11, v), m[16]))
  IN <<RMul(RAdd(Dot3(m, 0, 4, 8, v), m[13]), w),
       RMul(RAdd(Dot3(m, 1, 5, 9, v), m[14]), w),
       RMul(RAdd(Dot3(m, 2, 6, 10, v), m[15]), w)>>

\* the library's transformVector(m3, v), m3 a sequence of 9 entries
transformVector(m3, v) ==
  <<Dot3(m3, 0, 3, 6, v), Dot3(m3, 1, 4, 7, v), Dot3(m3, 2, 5, 8, v)>>

\* the worker's transformVector(v, m), m a sequence of 16 entries
workerTransformVector(v, m) ==
  <<Dot3(m, 0, 4, 8, v), Dot3(m, 1, 5, 9, v), Dot3(m, 2, 6, 10, v)>>

RSubt(a, b) == RAdd(a, RNeg(b))

\* the nine products of the inverse, before the division by the determinant,
\* from the entries a00 .. a22 as the code names them: [b01, m01, m02, b11,
\* m11, m12, b21, m21, m22] and the determinant
Cofactors(a00, a01, a02, a10, a11, a12, a20, a21, a22) ==
  LET b01 == RSubt(RMul(a22, a11), RMul(a12, a21))
      b11 == RAdd(RMul(RNeg(a22), a10), RMul(a12, a20))
      b21 == RSubt(RMul(a21, a10), RMul(a11, a20))
  IN [out |-> <<b01,
                RAdd(RMul(RNeg(a22), a01), RMul(a02, a21)),
                RSubt(RMul(a12, a01), RMul(a02, a11)),
                b11,
                RSubt(RMul(a22, a00), RMul(a02, a20)),
                RAdd(RMul(RNeg(a12), a00), RMul(a02, a10)),
                b21,
                RAdd(RMul(RNeg(a21), a00), RMul(a01, a20)),
                RSubt(RMul(a11, a00), RMul(a01, a10))>>,
      det |-> RAdd(RAdd(RMul(a00, b01), RMul(a01, b11)), RMul(a02, b21))]

\* the library's computeNormalMatrix(m): a00 = m[0], a01 = m[4], a02 = m[8], ...;
\* if (!det) det = 1; returns [m00, m10, m20, m01, m11, m21, m02, m12, m22]
computeNormalMatrix(m) ==
  LET co == Cofactors(m[1], m[5], m[9], m[2], m[6], m[10], m[3], m[7], m[11])
      invDet == IF RIsZero(co.det) THEN RInt(1) ELSE RInv(co.det)
      e == [k \in 1..9 |-> RMul(co.out[k], invDet)]
  IN <<e[1], e[4], e[7], e[2], e[5], e[8], e[3], e[6], e[9]>>

\* the worker's computeNormalMatrix(m): a00 = m[0], a01 = m[1], a02 = m[2], ...;
\* if (!det) return identityMat4(); returns a 4x4 matrix
workerComputeNormalMatrix(m) ==
  LET co == Cofactors(m[1], m[2], m[3], m[5], m[6], m[7], m[9], m[10], m[11])
      det == RInv(co.det)
      e == [k \in 1..9 |-> RMul(co.out[k], det)]
  IN IF RIsZero(co.det) THEN identityMat4
     ELSE <<e[1], e[2], e[3], RInt(0), e[4], e[5], e[6], RInt(0),
            e[7], e[8], e[9], RInt(0), RInt(0), RInt(0), RInt(0), RInt(1)>>

\* normalizeInPlace(v): len = Math.hypot(v) || 1; v /= len.  The length may be
\* irrational, so the unit vector v / |v| is represented by the vector of
\* coprime integers that points the same way; the zero vector stays as it is
normalizeInPlace(v) ==
  LET den == v[1][2] * v[2][2] * v[3][2]
      n == [k \in 1..3 |-> (v[k][1] * den) \div v[k][2]]
      g == Gcd(Gcd(Abs(n[1]), Abs(n[2])), Abs(n[3]))
  IN IF g = 0 THEN <<RInt(0), RInt(0), RInt(0)>>
     ELSE <<RInt(n[1] \div g), RInt(n[2] \div g), RInt(n[3] \div g)>>

\* bakePrimitiveTransform: POSITION, NORMAL and TANGENT of one primitive
\* (prim = [pos, normal, tangent]) baked with the world matrix
bakePrimitiveTransform(prim, matrix) ==
  LET normalMat == computeNormalMatrix(matrix)
  IN [pos |-> transformPoint(matrix, prim.pos),
      normal |-> normalizeInPlace(transformVector(normalMat, prim.normal)),
      tangent |-> normalizeInPlace(transformVector(normalMat,
                    <<prim.tangent[1], prim.tangent[2], prim.tangent[3]>>))
                  \o <<prim.tangent[4]>>]

workerBakePrimitiveTransform(prim, matrix) ==
  LET normalMat == workerComputeNormalMatrix(matrix)
  IN [pos |-> workerTransformPoint(prim.pos, matrix),
      normal |-> normalizeInPlace(workerTransformVector(prim.normal, normalMat)),
      tangent |-> normalizeInPlace(workerTransformVector(
                    <<prim.tangent[1], prim.tangent[2], prim.tangent[3]>>, normalMat))
                  \o <<prim.tangent[4]>>]

\* local || identityMat4(): a node without a local matrix is <<>>
LocalOr(local) == IF local = <<>> THEN identityMat4 ELSE local

RECURSIVE bakeNodeRecursive(_, _, _, _, _)
\* bakeNodeRecursive over a chain of nodes, each with one primitive and the
\* next node as its only child: locals[i] is node i's local matrix, parentMatrix
\* is <<>> for the call on the scene's child; impl says whose
\* bakePrimitiveTransform is called, the library's or the worker's.
\* The result lists the baked primitives in the order they are added.
bakeNodeRecursive(locals, prim, i, parentMatrix, impl) ==
  IF i > Len(locals) THEN <<>>
  ELSE LET world == IF parentMatrix # <<>>
                      THEN multiplyMat4(parentMatrix, LocalOr(locals[i]))
                      ELSE LocalOr(locals[i])
       IN <<IF impl = "library" THEN bakePrimitiveTransform(prim, world)
            ELSE workerBakePrimitiveTransform(prim, world)>>
          \o bakeNodeRecursive(locals, prim, i + 1, world, impl)

(* ------------------------------------------------------------------ *)
(* mergePrimitivesIntoOne.  The library's (atlas-cli.mjs 1129-1219) and *)
(* the worker's (atlas-worker.js 449-512) are the same statement for    *)
(* statement.  A primitive is [hasPos, count, norm, tan, uv, hasIdx,    *)
(* idx]: its vertex count, which of NORMAL, TANGENT and TEXCOORD_0 it   *)
(* has (each with one element per vertex), and its index array.  A      *)
(* concatenated attribute array is kept as the sequence of its runs     *)
(* [prim, n]: the elements of the n vertices of primitive prim, in      *)
(* order; an index array is kept as the sequence of its runs [start,    *)
(* n]: the n consecutive values start, start + 1, ...                   *)
(* ------------------------------------------------------------------ *)
RECURSIVE SumN(_)
\* the number of elements of an array of runs
SumN(runs) == IF runs = <<>> THEN 0 ELSE Head(runs).n + SumN(Tail(runs))

\* arr.length of a concatenated attribute array of n components per element
ArrLength(runs, n) == n * SumN(runs)

\* only the first contributing primitive's elements are kept
addVecN_FirstOnly(present, p, count, out) ==
  IF present /\ out = <<>> THEN Append(out, [prim |-> p, n |-> count]) ELSE out

\* addVec3 / addVec4 / addVec2 (the worker's addVecN): nothing if the
\* attribute is missing, else the attribute's elements appended to out
addVecN(present, p, count, out) ==
  IF present THEN Append(out, [prim |-> p, n |-> count]) ELSE out

RECURSIVE shiftIndices_NoBase(_, _, _)
\* the indices copied as they are, without the vertex offset
shiftIndices_NoBase(idxArray, indexBase, k) ==
  IF k > Len(idxArray) THEN <<>>
  ELSE <<[start |-> idxArray[k], n |-> 1]>>
         \o shiftIndices_NoBase(idxArray, indexBase, k + 1)

RECURSIVE shiftIndices(_, _, _)
\* indices.push(idxArray[i] + indexBase) for every i from k on
shiftIndices(idxArray, indexBase, k) ==
  IF k > Len(idxArray) THEN <<>>
  ELSE <<[start |-> idxArray[k] + indexBase, n |-> 1]>>
         \o shiftIndices(idxArray, indexBase, k + 1)

RECURSIVE mergeCollect(_, _, _)
\* the collect loop from primitive p on; acc = [indexBase, positions,
\* normals, tangents, uvs, indices]
mergeCollect(primList, p, acc) ==
  IF p > Len(primList) THEN acc
  ELSE LET prim == primList[p]
       IN IF ~prim.hasPos THEN mergeCollect(primList, p + 1, acc)
          ELSE mergeCollect(primList, p + 1,
                 [indexBase |-> acc.indexBase + prim.count,
                  positions |-> addVecN(TRUE, p, prim.count, acc.positions),
                  normals |-> addVecN(prim.norm, p, prim.count, acc.normals),
                  tangents |-> addVecN(prim.tan, p, prim.count, acc.tangents),
                  uvs |-> addVecN(prim.uv, p, prim.count, acc.uvs),
                  indices |-> acc.indices \o
                    (IF prim.hasIdx THEN shiftIndices(prim.idx, acc.indexBase, 1)
                     ELSE IF prim.count > 0
                            THEN <<[start |-> acc.indexBase, n |-> prim.count]>>
                            ELSE <<>>)])

RECURSIVE wrapRun(_, _, _)
\* the values start .. start + n - 1 stored in an array of unsigned integers
\* of modulus m: each value modulo m
wrapRun(start, n, m) ==
  IF n = 0 THEN <<>>
  ELSE LET s == start % m
           take == Min2(n, m - s)
       IN <<[start |-> s, n |-> take]>> \o wrapRun(start + take, n - take, m)

RECURSIVE typedArray(_, _, _)
\* new Uint16Array(indices) / new Uint32Array(indices); the values of the
\* model are all below 2^31, so 32 bits store them as they are
typedArray(indices, k, bits) ==
  IF bits = 32 THEN indices
  ELSE IF k > Len(indices) THEN <<>>
  ELSE wrapRun(indices[k].start, indices[k].n, 65536)
         \o typedArray(indices, k + 1, bits)

Absent == [present |-> FALSE, runs |-> <<>>]
Unmerged == [merged |-> FALSE]

\* indexComponent = indices.length > 65535 ? uint32 : uint16
IndexBits(acc) == IF SumN(acc.indices) > 65535 THEN 32 ELSE 16

\* an attribute kept whenever some primitive supplied it
keepAttr_IfAny(acc, runs, n) ==
  IF runs # <<>> THEN [present |-> TRUE, runs |-> runs] ELSE Absent

\* if (arr.length === (positions.length / 3) * n) newPrim.setAttribute(...)
keepAttr(acc, runs, n) ==
  IF ArrLength(runs, n) = (ArrLength(acc.positions, 3) \div 3) * n
    THEN [present |-> TRUE, runs |-> runs] ELSE Absent

mergeResult(acc) ==
  IF ArrLength(acc.positions, 3) = 0 \/ SumN(acc.indices) = 0 THEN Unmerged
  ELSE [merged |-> TRUE,
        POSITION |-> acc.positions,
        NORMAL |-> keepAttr(acc, acc.normals, 3),
        TANGENT |-> keepAttr(acc, acc.tangents, 4),
        TEXCOORD_0 |-> keepAttr(acc, acc.uvs, 2),
        indexBits |-> IndexBits(acc),
        \* the list "indices" of the loop, and the typed array made of it
        indexList |-> acc.indices,
        indices |-> typedArray(acc.indices, 1, IndexBits(acc))]

mergePrimitivesIntoOne(primList) ==
  IF Len(primList) <= 1 THEN Unmerged
  ELSE The({mergeResult(acc) : acc \in
         {mergeCollect(primList, 1,
            [indexBase |-> 0, positions |-> <<>>, normals |-> <<>>,
             tangents |-> <<>>, uvs |-> <<>>, indices |-> <<>>])}})

(* collapseToSingleMeshAndMaterial *)
RECURSIVE bakeNodes(_, _, _)
\* bakeNodeRecursive for the nodes list[k], list[k + 1], ...: the primitives
\* added to the merged mesh, in order.  A baked primitive has the semantics,
\* the vertex count and the indices of its source
bakeNodes(doc, list, k) ==
  IF k > Len(list) THEN <<>>
  ELSE LET node == doc.nodes[list[k]]
       IN (IF node.mesh = 0 THEN <<>> ELSE doc.meshes[node.mesh])
            \o bakeNodes(doc, node.children, 1)
            \o bakeNodes(doc, list, k + 1)

RECURSIVE bakeScenes(_, _)
\* the loop over the scenes and their children
bakeScenes(doc, s) ==
  IF s > Len(doc.scenes) THEN <<>>
  ELSE bakeNodes(doc, doc.scenes[s], 1) \o bakeScenes(doc, s + 1)

\* the number of primitives of the mesh after mergePrimitivesIntoOne
primitivesAfterMerge(primList) ==
  IF mergePrimitivesIntoOne(primList).merged THEN 1 ELSE Len(primList)

\* doc = [scenes, nodes, meshes, nMaterials]: the children of each scene, each
\* node's mesh (0: none) and children, each mesh's primitives, and the number
\* of materials.  The result lists what the root holds afterwards
collapseToSingleMeshAndMaterial(doc, atlasTex) ==
  LET mat == doc.nMaterials + 1
      mergedMesh == Len(doc.meshes) + 1
      newNode == Len(doc.nodes) + 1
      baked == bakeScenes(doc, 1)
      \* every scene of the list has lost its children; the first one, or
      \* the scene created when there was none, gets the new node
      emptied == IF doc.scenes = <<>> THEN << <<>> >>
                 ELSE [s \in 1..Len(doc.scenes) |-> <<>>]
      attached == [emptied EXCEPT ![1] = Append(@, newNode)]
  IN [scenes |-> SubSeq(attached, 1, 1),
      meshes |-> {m \in 1..mergedMesh : m = mergedMesh},
      materials |-> {m \in 1..mat : m = mat},
      nodes |-> {n \in 1..newNode : n = newNode},
      newNode |-> newNode,
      material |-> mergedMaterial(atlasTex),
      sourcePrimitives |-> Len(baked),
      primitives |-> primitivesAfterMerge(baked)]

(* ------------------------------------------------------------------ *)
(* Single applications of the sizing, remap and packing functions       *)
(* ------------------------------------------------------------------ *)
SizerInputs ==
  [w : {1, 100, 256, 600, 1024, 5000}, h : {100, 256, 512, 5000},
   area : {<<0, 0>>, <<1, 10>>, <<4, 10>>, <<10, 10>>},
   haveAreas : BOOLEAN, maxSize : {128, 256, 1000, 1024, 4096},
   sizeMode : {"best-fill", "buckets"}, resizeMode : {"none", "downscale"},
   resizeCeil : {512, 4096}]

UVValues == {Rat(0, 1), Rat(1, 4), Rat(1, 1), Rat(5, 2), Rat(0 - 1, 2)}

RemapInputs ==
  [arr : {<< <<RInt(0), RInt(0)>>, <<RInt(1), RInt(0)>>, <<RInt(1), RInt(1)>> >>}
           \cup {<< <<u, v>> >> : u \in UVValues, v \in UVValues},
   rect : [x : {0, 256, 258}, y : {0, 130}, width : {256, 255}, height : {256, 127}],
   atlasW : {512, 1024}, atlasH : {512, 1024}]

\* documents and material maps for the remap loops: two materials whose base
\* color textures sample UV set 0 or 1, two primitives that may share a UV
\* accessor, and a layout of the two materials' rects in the atlas
LoopRect(x, y, w, h) == [x |-> x, y |-> y, width |-> w, height |-> h]

LoopLayouts ==
  {(1 :> LoopRect(0, 0, 256, 256)) @@ (2 :> LoopRect(258, 0, 256, 256)),
   (1 :> LoopRect(0, 0, 512, 512)) @@ (2 :> LoopRect(0, 514, 256, 256)),
   (1 :> LoopRect(0, 0, 512, 512))}

LoopPrims ==
  {[mat |-> m, attr |-> a, area |-> 1] :
     m \in 1..2,
     a \in {(0 :> 1) @@ (1 :> 0), (0 :> 1) @@ (1 :> 2), (0 :> 2) @@ (1 :> 1)}}

\* the base color texture-info of a material with a KHR_texture_transform
WithTransform(mat, t) == [mat EXCEPT !.xf["basecolor"] = t]

\* a scale with an offset, and a quarter turn (cos 0, sin 1)
LoopTransforms ==
  {[present |-> TRUE, offset |-> <<Rat(1, 4), RInt(0)>>,
    scale |-> <<Rat(1, 2), Rat(1, 2)>>, rot |-> <<RInt(1), RInt(0)>>],
   [present |-> TRUE, offset |-> <<RInt(1), RInt(0)>>,
    scale |-> <<RInt(1), RInt(1)>>, rot |-> <<RInt(0), RInt(1)>>]}

LoopInputs ==
  [materials : {<<Material("a", 1, 0, t1, 0), Material("b", 2, 0, t2, 0)>> :
                  t1 \in TexSets, t2 \in TexSets},
   prims : [1..2 -> LoopPrims],
   rects : LoopLayouts,
   atlasSize : {1024, 2048},
   texcoord : TexSets]

\* the same documents with a transform on the first material's texture-info
TransformInputs ==
  [materials : {<<WithTransform(Material("a", 1, 0, t1, 0), t), Material("b", 2, 0, 0, 0)>> :
                  t1 \in TexSets, t \in LoopTransforms},
   prims : [1..2 -> LoopPrims],
   rects : LoopLayouts,
   atlasSize : {1024},
   texcoord : {0}]

LoopDoc(in) ==
  [materials |-> in.materials,
   textures |-> Append(SrcTextures, [atlas |-> TRUE, map |-> "basecolor", bin |-> 0,
                                     w |-> in.atlasSize, h |-> in.atlasSize]),
   prims |-> in.prims,
   accessors |-> SrcAccessors]

\* the materialMap the bin loop builds for that layout
LoopMap(in) ==
  [m \in DOMAIN in.rects |->
     mappingOf("basecolor", in.materials[m], in.rects[m], Len(SrcTextures) + 1, 0,
               in.atlasSize)]

ItemOf(i, size) ==
  [id |-> i, width |-> size[1], height |-> size[2],
   data |-> [texture |-> i + 1, width |-> size[1], height |-> size[2],
             materials |-> <<i + 1>>]]

ItemSizes == {<<64, 64>>, <<256, 256>>, <<300, 200>>, <<512, 512>>, <<2048, 2048>>}

PackInputs ==
  [items : {<<ItemOf(0, a)>> : a \in ItemSizes}
             \cup {<<ItemOf(0, a), ItemOf(1, b)>> : a \in ItemSizes, b \in ItemSizes},
   maxSize : {256, 512, 1024}, padding : {0, 2}]

\* arguments of the library's packIntoAtlas
LibPackInputs ==
  [items : {<<ItemOf(0, a)>> : a \in ItemSizes}
             \cup {<<ItemOf(0, a), ItemOf(1, b)>> : a \in ItemSizes, b \in ItemSizes},
   maxSize : {256, 512, 1024, 2048}, padding : {0, 2}, maxBins : 1..MaxBinsOpt]

\* arguments of findBestScaleForSingleBin
ScaleInputs ==
  [items : {<<ItemOf(0, a)>> : a \in ItemSizes}
             \cup {<<ItemOf(0, a), ItemOf(1, b)>> : a \in ItemSizes, b \in ItemSizes},
   maxSize : {256, 512, 1024}, padding : {0, 2}]

\* a matrix of integers, from its 16 column-major entries
IntMat(e) == [k \in 1..16 |-> RInt(e[k])]
ScaleX2 == IntMat(<<2, 0, 0, 0, 0, 1, 0, 0, 0, 0, 1, 0, 0, 0, 0, 1>>)
Translate123 == IntMat(<<1, 0, 0, 0, 0, 1, 0, 0, 0, 0, 1, 0, 1, 2, 3, 1>>)
\* a quarter turn about Z: x goes to y, y to -x
RotZ90 == IntMat(<<0, 1, 0, 0, 0 - 1, 0, 0, 0, 0, 0, 1, 0, 0, 0, 0, 1>>)
\* x' = x + y
ShearXY == IntMat(<<1, 0, 0, 0, 1, 1, 0, 0, 0, 0, 1, 0, 0, 0, 0, 1>>)
\* scale 0 on Z: determinant 0
FlattenZ == IntMat(<<1, 0, 0, 0, 0, 1, 0, 0, 0, 0, 0, 0, 0, 0, 0, 1>>)
LocalChoices == {<<>>, ScaleX2, Translate123, RotZ90, ShearXY, FlattenZ}
MaxDepth == 2
IntVec(e) == [k \in 1..Len(e) |-> RInt(e[k])]
\* a chain of nodes, and the one vertex of the primitive each node carries
BakeInputs ==
  [locals : UNION {[1..n -> LocalChoices] : n \in 1..MaxDepth},
   pos : {IntVec(<<1, 0, 0>>), IntVec(<<1, 2, 3>>)},
   normal : {IntVec(<<1, 0, 0>>), <<RInt(0), <<3, 5>>, <<4, 5>>>>},
   tangent : {IntVec(<<0, 1, 0, 0 - 1>>), IntVec(<<1, 0, 0, 1>>)}]

MaxMergePrims == 3
\* a primitive without POSITION, and primitives of 2, 65534 and 65536 vertices,
\* non-indexed or with the indices [0, 0, count - 1]
MergePrimChoices ==
  {[hasPos |-> FALSE, count |-> 0, norm |-> FALSE, tan |-> FALSE, uv |-> FALSE,
    hasIdx |-> FALSE, idx |-> <<>>]}
    \cup {[hasPos |-> TRUE, count |-> c, norm |-> a[1], tan |-> a[2], uv |-> a[3],
           hasIdx |-> x, idx |-> IF x THEN <<0, 0, c - 1>> ELSE <<>>] :
            c \in {2, 65534, 65536},
            a \in {<<TRUE, TRUE, TRUE>>, <<FALSE, FALSE, FALSE>>, <<TRUE, FALSE, TRUE>>},
            x \in BOOLEAN}
\* the primitives of the mesh handed to mergePrimitivesIntoOne
MergeInputs == [prims : UNION {[1..n -> MergePrimChoices] : n \in 1..MaxMergePrims}]

\* a primitive without POSITION and an indexed primitive of two vertices
CollapsePrims ==
  {[hasPos |-> FALSE, count |-> 0, norm |-> FALSE, tan |-> FALSE, uv |-> FALSE,
    hasIdx |-> FALSE, idx |-> <<>>],
   [hasPos |-> TRUE, count |-> 2, norm |-> TRUE, tan |-> FALSE, uv |-> TRUE,
    hasIdx |-> TRUE, idx |-> <<0, 0, 1>>]}

\* meshes of no, one or two primitives
CollapseMeshes == UNION {[1..n -> CollapsePrims] : n \in 0..2}

\* documents of up to two scenes over three nodes (node 3 may be a child of
\* node 1, a scene root, or outside every scene), two meshes that a node may
\* use, and up to two materials
CollapseInputs ==
  [scenes : {<<>>, << <<>> >>, << <<1>> >>, << <<1, 2>> >>, << <<1>>, <<2>> >>,
             << <<1>>, <<2, 3>> >>},
   nodes : {<<[mesh |-> m1, children |-> c], [mesh |-> m2, children |-> <<>>],
              [mesh |-> 2, children |-> <<>>]>> :
              m1 \in 0..1, m2 \in 0..2, c \in {<<>>, <<3>>}},
   meshes : [1..2 -> CollapseMeshes],
   nMaterials : {0, 2}]

UnitInputs ==
  {[kind |-> "bake", in |-> i, out |-> <<>>] : i \in BakeInputs}
    \cup {[kind |-> "merge", in |-> i, out |-> <<>>] : i \in MergeInputs}
    \cup {[kind |-> "sizer", in |-> i, out |-> <<>>] : i \in SizerInputs}
    \cup {[kind |-> "remap", in |-> i, out |-> <<>>] : i \in RemapInputs}
    \cup {[kind |-> "workerPack", in |-> i, out |-> <<>>] : i \in PackInputs}
    \cup {[kind |-> "remapLoop", in |-> i, out |-> <<>>] : i \in LoopInputs}
    \cup {[kind |-> "pack", in |-> i, out |-> <<>>] : i \in LibPackInputs}
    \cup {[kind |-> "transform", in |-> i, out |-> <<>>] : i \in TransformInputs}
    \cup {[kind |-> "collapse", in |-> i, out |-> <<>>] : i \in CollapseInputs}
    \cup {[kind |-> "scale", in |-> i, out |-> <<>>] : i \in ScaleInputs}

InitUnit ==
  /\ unit \in UnitInputs
  /\ pc = "unit"
  /\ opts = [maps |-> <<>>, maxSize |-> 4096, padding |-> 2, maxBins |-> 1,
             resizeMode |-> "downscale", resizeCeil |-> 4096, sizeMode |-> "best-fill",
             texcoord |-> 0]
  /\ materials = <<>>
  /\ textures = <<>>
  /\ prims = <<>>
  /\ accessors = <<>>
  /\ run = 1
  /\ validMaps = <<>>
  /\ canonicalMap = ""
  /\ mapIdx = 1
  /\ layout = <<>>
  /\ atlasTextures = EmptyMap
  /\ canonicalRects = <<>>
  /\ canonicalSize = NoSize
  /\ materialMaps = EmptyMap
  /\ pre = Doc

UnitFrame ==
  UNCHANGED <<opts, materials, textures, prims, accessors, run, validMaps, canonicalMap,
              mapIdx, layout, atlasTextures, canonicalRects, canonicalSize, materialMaps,
              pre>>

\* the Texture Sizer applied to one texture
ApplySizer ==
  /\ pc = "unit"
  /\ unit.kind = "sizer"
  /\ unit' = [unit EXCEPT !.out =
                targetSize(unit.in.w, unit.in.h, unit.in.area[1], unit.in.area[2],
                           unit.in.haveAreas, unit.in.maxSize, unit.in.sizeMode,
                           unit.in.resizeMode, unit.in.resizeCeil)]
  /\ pc' = "unit-done"
  /\ UnitFrame

\* the library's and the worker's remap applied to one UV array
ApplyRemap ==
  /\ pc = "unit"
  /\ unit.kind = "remap"
  /\ unit' = [unit EXCEPT !.out =
                [lib |-> remapArray(unit.in.arr, unit.in.rect, unit.in.atlasW,
                                    unit.in.atlasH),
                 worker |-> remapUVsInPlace(unit.in.arr, unit.in.rect, unit.in.atlasW)]]
  /\ pc' = "unit-done"
  /\ UnitFrame

\* the worker's single-atlas packer applied to one item list
ApplyWorkerPack ==
  /\ pc = "unit"
  /\ unit.kind = "workerPack"
  /\ unit' = [unit EXCEPT !.out =
                packIntoSingleAtlasWithDownscale(unit.in.items, unit.in.maxSize,
                                                 unit.in.padding)]
  /\ pc' = "unit-done"
  /\ UnitFrame

\* the library's and the worker's remap loop applied to one document
ApplyRemapLoop ==
  /\ pc = "unit"
  /\ unit.kind = "remapLoop"
  /\ unit' = [unit EXCEPT !.out =
                [lib |-> remapLoop(LoopDoc(unit.in), "basecolor", LoopMap(unit.in), 1),
                 worker |-> workerRemapLoop(LoopDoc(unit.in), LoopMap(unit.in),
                                            unit.in.atlasSize, unit.in.texcoord, 1)]]
  /\ pc' = "unit-done"
  /\ UnitFrame

\* the library's remap loop applied to a document with a texture transform
ApplyTransformLoop ==
  /\ pc = "unit"
  /\ unit.kind = "transform"
  /\ unit' = [unit EXCEPT !.out =
                [lib |-> remapLoop(LoopDoc(unit.in), "basecolor", LoopMap(unit.in), 1)]]
  /\ pc' = "unit-done"
  /\ UnitFrame

\* collapseToSingleMeshAndMaterial applied to one document
ApplyCollapse ==
  /\ pc = "unit"
  /\ unit.kind = "collapse"
  /\ unit' = [unit EXCEPT !.out = collapseToSingleMeshAndMaterial(unit.in, EmptyMap)]
  /\ pc' = "unit-done"
  /\ UnitFrame

\* the library's packIntoAtlas applied to one item list
ApplyPack ==
  /\ pc = "unit"
  /\ unit.kind = "pack"
  /\ unit' = [unit EXCEPT !.out =
                packIntoAtlas(unit.in.items, unit.in.maxSize, unit.in.padding,
                              unit.in.maxBins)]
  /\ pc' = "unit-done"
  /\ UnitFrame

\* findBestScaleForSingleBin applied to one item list
ApplyScaleSearch ==
  /\ pc = "unit"
  /\ unit.kind = "scale"
  /\ unit' = [unit EXCEPT !.out =
                findBestScaleForSingleBin(unit.in.items, unit.in.maxSize, unit.in.padding)]
  /\ pc' = "unit-done"
  /\ UnitFrame

\* the library's and the worker's bakeNodeRecursive applied to one chain of nodes
ApplyBake ==
  /\ pc = "unit"
  /\ unit.kind = "bake"
  /\ unit' = [unit EXCEPT !.out =
                [lib |-> bakeNodeRecursive(unit.in.locals,
                           [pos |-> unit.in.pos, normal |-> unit.in.normal,
                            tangent |-> unit.in.tangent], 1, <<>>, "library"),
                 worker |-> bakeNodeRecursive(unit.in.locals,
                           [pos |-> unit.in.pos, normal |-> unit.in.normal,
                            tangent |-> unit.in.tangent], 1, <<>>, "worker")]]
  /\ pc' = "unit-done"
  /\ UnitFrame

\* mergePrimitivesIntoOne applied to one mesh
ApplyMerge ==
  /\ pc = "unit"
  /\ unit.kind = "merge"
  /\ unit' = [unit EXCEPT !.out = mergePrimitivesIntoOne(unit.in.prims)]
  /\ pc' = "unit-done"
  /\ UnitFrame

NextUnit ==
  \/ ApplyBake
  \/ ApplyMerge
  \/ ApplySizer
  \/ ApplyRemap
  \/ ApplyWorkerPack
  \/ ApplyRemapLoop
  \/ ApplyTransformLoop
  \/ ApplyCollapse
  \/ ApplyPack
  \/ ApplyScaleSearch

SpecUnit == InitUnit /\ [][NextUnit]_vars

(* ------------------------------------------------------------------ *)
(* The browser workers' message handlers                                *)
(* ------------------------------------------------------------------ *)
Workers == {"atlas", "mesh-merge", "texture-optimizer", "placeholder"}

\* the awaited steps of the try block of each self.onmessage, in order; the
\* synchronous code after an await runs when the await resumes
workerSteps(w) ==
  CASE w = "atlas" ->
         <<"arrayBuffer", "readBinary", "atlasAllMaps", "collapseToSingleMeshAndMaterial",
           "unpartition", "sanitizeTextureImages", "prune", "writeBinary">>
    [] w = "mesh-merge" ->
         <<"arrayBuffer", "readBinary", "mergeAllMeshes", "unpartition", "prune",
           "writeBinary">>
    [] w = "texture-optimizer" ->
         <<"arrayBuffer", "readBinary", "optimizeTextures", "writeBinary">>
    [] OTHER -> <<"arrayBuffer">>

\* the value of event.data.files (atlas, placeholder) or event.data.file (the
\* others): absent, null, an empty list, or one or two files
DataShapes(w) ==
  IF w \in {"atlas", "placeholder"} THEN {"undefined", "null", "empty", "one", "two"}
  ELSE {"undefined", "null", "one"}

\* the code before the try block: "error" when it posts the error and
\* returns, "throws" when it throws, "try" when it enters the try block.
\*   atlas:        const { files = [] } = event.data || {}; if (!files.length)
\*   placeholder:  if (!files || !files.length)
\*   the others:   if (!file)
workerGuard(w, data) ==
  IF w = "atlas"
    THEN (IF data = "null" THEN "throws"
          ELSE IF data \in {"undefined", "empty"} THEN "error" ELSE "try")
    ELSE (IF data \in {"undefined", "null", "empty"} THEN "error" ELSE "try")

MaxRequests == 2

\* one worker and the messages posted to it; nothing has been delivered
WorkerInputs ==
  UNION {[worker : {w}, msgs : [1..MaxRequests -> DataShapes(w)]] : w \in Workers}

Queued == [at |-> "queued", step |-> 0, threw |-> FALSE]

InitWorker ==
  /\ unit \in {[kind |-> "worker", in |-> i,
                 out |-> [handlers |-> [r \in 1..MaxRequests |-> Queued],
                          posted |-> <<>>]] : i \in WorkerInputs}
  /\ pc = "worker"
  /\ opts = [maps |-> <<>>, maxSize |-> 4096, padding |-> 2, maxBins |-> 1,
             resizeMode |-> "downscale", resizeCeil |-> 4096, sizeMode |-> "best-fill",
             texcoord |-> 0]
  /\ materials = <<>>
  /\ textures = <<>>
  /\ prims = <<>>
  /\ accessors = <<>>
  /\ run = 1
  /\ validMaps = <<>>
  /\ canonicalMap = ""
  /\ mapIdx = 1
  /\ layout = <<>>
  /\ atlasTextures = EmptyMap
  /\ canonicalRects = <<>>
  /\ canonicalSize = NoSize
  /\ materialMaps = EmptyMap
  /\ pre = Doc

\* self.postMessage({ error }) / self.postMessage({ glb }) of the handler of
\* message r
postReply(out, r, type) ==
  [out EXCEPT !.posted = Append(@, [req |-> r, type |-> type])]

\* message r is delivered: the handler runs up to its first await.  Messages
\* are delivered in the order they were posted
Deliver(r) ==
  /\ pc = "worker"
  /\ unit.out.handlers[r].at = "queued"
  /\ \A q \in 1..(r - 1) : unit.out.handlers[q].at # "queued"
  /\ LET g == workerGuard(unit.in.worker, unit.in.msgs[r])
     IN unit' = [unit EXCEPT !.out =
                   IF g = "error"
                     THEN postReply([@ EXCEPT !.handlers[r].at = "returned"], r, "error")
                   ELSE IF g = "throws"
                     THEN [@ EXCEPT !.handlers[r].at = "rejected"]
                   ELSE [@ EXCEPT !.handlers[r].at = "await", !.handlers[r].step = 1]]
  /\ UNCHANGED pc
  /\ UnitFrame

\* the await of handler r settles, and the code up to the next await runs: a
\* rejection or a throw goes to the catch block, which posts the error; after
\* the last step the handler posts the result
Resume(r) ==
  /\ pc = "worker"
  /\ unit.out.handlers[r].at = "await"
  /\ \E ok \in BOOLEAN :
       LET h == unit.out.handlers[r]
           last == h.step = Len(workerSteps(unit.in.worker))
       IN unit' = [unit EXCEPT !.out =
                     IF ~ok
                       THEN postReply([@ EXCEPT !.handlers[r].at = "returned",
                                                !.handlers[r].threw = TRUE], r, "error")
                     ELSE IF last
                       THEN postReply([@ EXCEPT !.handlers[r].at = "returned"], r, "glb")
                     ELSE [@ EXCEPT !.handlers[r].step = h.step + 1]]
  /\ UNCHANGED pc
  /\ UnitFrame

NextWorker == \E r \in 1..MaxRequests : Deliver(r) \/ Resume(r)

SpecWorker == InitWorker /\ [][NextWorker]_vars

(* ------------------------------------------------------------------ *)
(* Properties                                                           *)
(* ------------------------------------------------------------------ *)
\* r is the rational (u * extent + offset) / size, in lowest terms
IsRemapOf(r, u, extent, offset, size) ==
  /\ r[2] > 0
  /\ Gcd(Abs(r[1]), r[2]) = 1
  /\ r[1] * (u[2] * size) = r[2] * (u[1] * extent + offset * u[2])

\* arr2 is arr remapped into rect of an atlas aw x ah
IsRemapOfArray(arr2, arr, rect, aw, ah) ==
  /\ Len(arr2) = Len(arr)
  /\ \A i \in 1..Len(arr) :
       /\ IsRemapOf(arr2[i][1], arr[i][1], rect.width, rect.x, aw)
       /\ IsRemapOf(arr2[i][2], arr[i][2], rect.height, rect.y, ah)

\* the canonical pass of this call has remapped primitive i: its TEXCOORD_0
\* is an accessor created since the call began
Remapped(i) == prims[i].attr[0] > Len(pre.accessors)

\* the first call has returned
FirstDone == pc = "done" /\ run = 1 /\ validMaps # <<>>

\* the canonical pass of the first call has completed
AfterCanonical == pc \in {"reuse", "done"} /\ run = 1 /\ validMaps # <<>>

RECURSIVE FlatGeometry(_)
\* the rects of a channel's layout, bin after bin, as (x, y, width, height)
FlatGeometry(atlases) ==
  IF atlases = <<>> THEN <<>>
  ELSE [i \in 1..Len(Head(atlases).rects) |->
          LET r == Head(atlases).rects[i]
          IN [x |-> r.x, y |-> r.y, width |-> r.width, height |-> r.height]]
       \o FlatGeometry(Tail(atlases))

(* ---- C1 ---- *)
\* C1: after processAtlas, every material of the document is mapped to a rect
\* in every requested channel, and its rect and atlas size are the same in all
\* requested channels
C1_EveryMaterialSameRectInEveryChannel ==
  FirstDone =>
    \A k \in 1..Len(validMaps) :
      /\ validMaps[k] \in DOMAIN materialMaps
      /\ \A i \in 1..Len(pre.materials) :
           /\ i \in DOMAIN materialMaps[validMaps[k]]
           /\ i \in DOMAIN materialMaps[canonicalMap]
           /\ materialMaps[validMaps[k]][i].rect = materialMaps[canonicalMap][i].rect
           /\ materialMaps[validMaps[k]][i].width = materialMaps[canonicalMap][i].width
           /\ materialMaps[validMaps[k]][i].height = materialMaps[canonicalMap][i].height

(* ---- C2 ---- *)
\* C2: every reused channel's rect layout equals the canonical channel's
\* complete rect layout, rect by rect, whatever the number of canonical bins
C2_ReuseLayoutEqualsCanonicalLayout ==
  FirstDone =>
    \A j \in 2..Len(layout) :
      FlatGeometry(layout[j].atlases) = FlatGeometry(layout[1].atlases)

(* ---- C3 ---- *)
\* C3: every atlas bin, of the library and of the worker's single-atlas
\* packer, is square, a power of two, and within [256, maxSize]
C3_EveryBinSquarePow2InRange ==
  /\ (pc \in {"reuse", "done"}) =>
       \A j \in 1..Len(layout) : \A b \in 1..Len(layout[j].atlases) :
         /\ layout[j].atlases[b].width = layout[j].atlases[b].height
         /\ IsPow2(layout[j].atlases[b].width)
         /\ layout[j].atlases[b].width >= 256
         /\ layout[j].atlases[b].width <= opts.maxSize
  /\ (pc = "unit-done" /\ unit.kind = "workerPack" /\ unit.out.ok) =>
       \A b \in 1..Len(unit.out.bins) :
         /\ unit.out.bins[b].width = unit.out.bins[b].height
         /\ IsPow2(unit.out.bins[b].width)
         /\ unit.out.bins[b].width >= 256
         /\ unit.out.bins[b].width <= unit.in.maxSize

(* ---- C4 ---- *)
ExampleUVs == << <<RInt(0), RInt(0)>>, <<RInt(1), RInt(0)>>, <<RInt(1), RInt(1)>> >>
ExampleRect == [x |-> 256, y |-> 0, width |-> 256, height |-> 256]
IsExample ==
  /\ unit.in.arr = ExampleUVs
  /\ unit.in.rect = ExampleRect
  /\ unit.in.atlasW = 1024
  /\ unit.in.atlasH = 1024

\* C4: the remap writes u' = u*(w/W) + x/W and v' = v*(h/H) + y/H; the example
\* of the rect {256,0,256,256} in a 1024 atlas gives (1/4,0),(1/2,0),(1/2,1/4);
\* the worker's remapUVsInPlace computes the library's values
C4_RemapFormula ==
  (pc = "unit-done" /\ unit.kind = "remap") =>
    /\ IsRemapOfArray(unit.out.lib, unit.in.arr, unit.in.rect, unit.in.atlasW,
                      unit.in.atlasH)
    /\ (unit.in.atlasW = unit.in.atlasH => unit.out.worker = unit.out.lib)
    /\ (IsExample =>
          unit.out.lib = << <<<<1, 4>>, <<0, 1>>>>, <<<<1, 2>>, <<0, 1>>>>,
                            <<<<1, 2>>, <<1, 4>>>> >>)

C4_Witness ==
  /\ pc = "unit-done"
  /\ unit.kind = "remap"
  /\ IsExample
  /\ unit.out.worker[3] = <<<<1, 2>>, <<1, 4>>>>

(* ---- C5 ---- *)
Tolerance == <<1, 20>>
RSub(a, b) == RAdd(a, <<0 - b[1], b[2]>>)

\* the check of verify-atlas: lo - tol <= x <= hi + tol
Within(x, lo, hi) == RLe(RSub(lo, Tolerance), x) /\ RLe(x, RAdd(hi, Tolerance))

\* C5: every remapped UV of a primitive lies inside its material's rect, as a
\* fraction of the atlas, within the tolerance
C5_RemappedUVsInsideRect ==
  AfterCanonical =>
    \A i \in 1..Len(prims) :
      (Remapped(i) /\ prims[i].mat \in DOMAIN materialMaps[canonicalMap]) =>
        LET m == materialMaps[canonicalMap][prims[i].mat]
            uvs == accessors[prims[i].attr[0]]
        IN \A k \in 1..Len(uvs) :
             /\ Within(uvs[k][1], Rat(m.rect.x, m.width),
                       Rat(m.rect.x + m.rect.width, m.width))
             /\ Within(uvs[k][2], Rat(m.rect.y, m.height),
                       Rat(m.rect.y + m.rect.height, m.height))

(* ---- C6 ---- *)
\* the UV values every primitive reads are those it read when the call began
UVsAsBefore ==
  \A i \in 1..Len(prims) : \A k \in TexSets :
    /\ (prims[i].attr[k] = 0) <=> (pre.prims[i].attr[k] = 0)
    /\ prims[i].attr[k] # 0 =>
         accessors[prims[i].attr[k]] = pre.accessors[pre.prims[i].attr[k]]

\* the second call's canonical pass has completed
SecondCanonical == pc \in {"reuse", "done"} /\ run = 2 /\ validMaps # <<>>

\* C6: a second canonical remap pass over the document the first call returned
\* changes no UV value
C6_SecondRunChangesNoUV == SecondCanonical => UVsAsBefore

(* ---- C7 ---- *)
\* the UV set the library's loop reads for primitive p, 0 - 1 if it skips p
LibSet(in, p) ==
  IF p.mat \in DOMAIN in.rects /\ p.attr[in.materials[p.mat].tc["basecolor"]] # 0
    THEN in.materials[p.mat].tc["basecolor"] ELSE 0 - 1

\* the UV set the worker's loop reads for primitive p, 0 - 1 if it skips p
WorkerSet(in, p) ==
  LET k == IF in.texcoord # 0 THEN in.texcoord ELSE in.materials[p.mat].tc["basecolor"]
  IN IF p.mat \in DOMAIN in.rects /\ p.attr[k] # 0 THEN k ELSE 0 - 1

\* out is the document in after a remap loop that read set(in, p) for each p:
\* the accessors of in are intact, a skipped primitive keeps its attributes,
\* and a remapped one has in TEXCOORD_0 the remap of the values it had
LoopResultOk(in, out, set(_, _)) ==
  /\ Len(out.accessors) >= Len(SrcAccessors)
  /\ \A a \in 1..Len(SrcAccessors) : out.accessors[a] = SrcAccessors[a]
  /\ \A i \in 1..Len(in.prims) :
       IF set(in, in.prims[i]) < 0
         THEN out.prims[i] = in.prims[i]
         ELSE /\ out.prims[i].attr[0] > Len(SrcAccessors)
              /\ IsRemapOfArray(out.accessors[out.prims[i].attr[0]],
                                SrcAccessors[in.prims[i].attr[set(in, in.prims[i])]],
                                in.rects[in.prims[i].mat], in.atlasSize, in.atlasSize)

\* C7: the remap never edits a UV accessor in place: a shared accessor's array
\* is unchanged after the loop, and each primitive's remapped UVs are the remap
\* of the original values with its own material's rect
C7_SharedAccessorsNotEditedInPlace ==
  (pc = "unit-done" /\ unit.kind = "remapLoop") =>
    /\ LoopResultOk(unit.in, unit.out.lib, LibSet)
    /\ LoopResultOk(unit.in, unit.out.worker, WorkerSet)

C7_Witness ==
  /\ pc = "unit-done"
  /\ unit.kind = "remapLoop"
  /\ unit.in.prims[1].mat # unit.in.prims[2].mat
  /\ unit.in.prims[1].attr[0] = unit.in.prims[2].attr[0]
  /\ LibSet(unit.in, unit.in.prims[1]) = 0
  /\ LibSet(unit.in, unit.in.prims[2]) = 0
  /\ unit.out.lib.accessors[unit.out.lib.prims[1].attr[0]]
       # unit.out.lib.accessors[unit.out.lib.prims[2].attr[0]]
  /\ unit.out.worker.accessors[unit.out.worker.prims[1].attr[0]]
       # unit.out.worker.accessors[unit.out.worker.prims[2].attr[0]]

C9_EveryTexInfoSamplesSet0 ==
  AfterCanonical =>
    \A i \in 1..Len(prims) :
      Remapped(i) =>
        \A s \in Slots :
          materials[prims[i].mat].tex[s] # 0 => materials[prims[i].mat].tc[s] = 0

(* ---- C10 ---- *)
\* C10: the Texture Sizer's target is a power of two, at most maxSize, and at
\* most min(w, h)
C10_TargetPow2AtMostMaxAndSource ==
  (pc = "unit-done" /\ unit.kind = "sizer") =>
    /\ IsPow2(unit.out)
    /\ unit.out <= unit.in.maxSize
    /\ unit.out <= Min2(unit.in.w, unit.in.h)

(* ---- C11 ---- *)
\* the bucket of a relative area matArea / maxMatArea
AreaBucket(area, maxArea) ==
  IF RelAtLeast(area, maxArea, 3, 5) THEN 2048
  ELSE IF RelAtLeast(area, maxArea, 7, 20) THEN 1024
  ELSE IF RelAtLeast(area, maxArea, 3, 20) THEN 512
  ELSE 256

\* the allowed sizes that exceed neither the bucket, nor maxSize, nor the
\* nearest power of two of the source (as read, after the resizeCeil downscale)
SizesWithin(in) ==
  LET d == ceilDownscale(in.w, in.h, in.resizeMode, in.resizeCeil)
  IN {AllowedSizes[k] : k \in 1..Len(AllowedSizes)}
       \cap {a \in 1..4096 : /\ a <= AreaBucket(in.area[1], in.area[2])
                             /\ a <= in.maxSize
                             /\ a <= nearestPow2(Max2(1, Min2(d.w, d.h)))}

\* C11: with area metadata, the target size is the largest allowed power of two
\* within the material's area bucket, maxSize and the source's nearest power of
\* two; a material of relative area below 0.15 is never sized above 256
C11_TargetIsLargestAllowedWithinBucket ==
  (pc = "unit-done" /\ unit.kind = "sizer" /\ unit.in.haveAreas
     /\ unit.in.sizeMode = "best-fill") =>
    /\ SizesWithin(unit.in) # {} =>
         /\ unit.out \in SizesWithin(unit.in)
         /\ \A a \in SizesWithin(unit.in) : a <= unit.out
    /\ ~RelAtLeast(unit.in.area[1], unit.in.area[2], 3, 20) => unit.out <= 256

(* ---- C12 ---- *)
RECURSIVE TrialSizes(_, _)
\* the trial sizes of the search: start, 2 start, 4 start, ... up to maxSize
TrialSizes(size, maxSize) ==
  IF size > maxSize THEN {} ELSE {size} \cup TrialSizes(2 * size, maxSize)

\* the trial sizes at which the items pack into at most maxBins bins
FittingSizes(in) ==
  {t \in TrialSizes(nextPow2(Max2(ItemsMaxDim(in.items, 1), 256)), in.maxSize) :
     Len(MaxRectsPacker(in.items, t, in.padding)) <= in.maxBins}

\* C12: packIntoAtlas returns the smallest trial size (next power of two of
\* max(largest dimension, 256), doubled) up to maxSize whose pack uses at most
\* maxBins bins, with that pack's bins, and throws exactly when there is none
C12_PackReturnsSmallestFittingTrialSize ==
  (pc = "unit-done" /\ unit.kind = "pack") =>
    /\ unit.out.ok <=> FittingSizes(unit.in) # {}
    /\ unit.out.ok =>
         /\ unit.out.size \in FittingSizes(unit.in)
         /\ \A t \in FittingSizes(unit.in) : unit.out.size <= t
         /\ unit.out.bins = MaxRectsPacker(unit.in.items, unit.out.size, unit.in.padding)
         /\ Len(unit.out.bins) <= unit.in.maxBins

\* a pack that had to double the trial size before it fitted
C12_Witness ==
  /\ pc = "unit-done"
  /\ unit.kind = "pack"
  /\ unit.out.ok
  /\ unit.out.size > nextPow2(Max2(ItemsMaxDim(unit.in.items, 1), 256))
  /\ unit.out.size < unit.in.maxSize

\* a pack that throws after trying every size up to maxSize
C12_WitnessThrow ==
  /\ pc = "unit-done"
  /\ unit.kind = "pack"
  /\ ~unit.out.ok
  /\ Cardinality(TrialSizes(nextPow2(Max2(ItemsMaxDim(unit.in.items, 1), 256)),
                            unit.in.maxSize)) >= 2

(* ---- C13 ---- *)
RECURSIVE BisectPacked(_, _, _, _)
\* the midpoints of the 10 bisection iterations that were found to pack
BisectPacked(in, low, high, i) ==
  IF i >= 10 THEN {}
  ELSE LET mid == RMul(RAdd(low, high), Half)
       IN IF canPack(in.items, in.maxSize, in.padding, 1, mid)
            THEN {mid} \cup BisectPacked(in, mid, high, i + 1)
            ELSE BisectPacked(in, low, mid, i + 1)

\* every scale the search found to pack: the seeded upper bound and the
\* packing midpoints
PackedScales(in) ==
  LET high == seedHigh(in.items, in.maxSize, in.padding, RInt(1))
  IN (IF canPack(in.items, in.maxSize, in.padding, 1, high) THEN {high} ELSE {})
       \cup BisectPacked(in, RInt(0), high, 0)

\* scale 1 does not pack, so the search runs
SearchRuns(in) == ~canPack(in.items, in.maxSize, in.padding, 1, RInt(1))

\* C13: when scale 1 does not pack, findBestScaleForSingleBin returns the
\* largest scale that was found to pack during the search (the seeded upper
\* bound included), and throws only if nothing down to the floor packs
C13_ReturnsLargestPackedScale ==
  (pc = "unit-done" /\ unit.kind = "scale" /\ SearchRuns(unit.in)) =>
    /\ unit.out.ok <=> PackedScales(unit.in) # {}
    /\ unit.out.ok =>
         /\ unit.out.scale \in PackedScales(unit.in)
         /\ \A sc \in PackedScales(unit.in) : RLe(sc, unit.out.scale)

(* ---- C14 ---- *)
\* the requested names that name a supported channel, whatever their case
SupportedNames == {"basecolor", "baseColor", "normal", "orm", "emissive"}

\* the channel a supported requested name stands for
ChannelOf(m) == IF m = "baseColor" THEN "basecolor" ELSE m

\* the supported channels of the requested list
RequestedChannels ==
  {ChannelOf(opts.maps[k]) : k \in {j \in 1..Len(opts.maps) : opts.maps[j] \in SupportedNames}}

\* C14: an unsupported channel name is skipped and every supported channel of
\* the list is still atlased; with no supported name processAtlas returns an
\* empty layout and leaves the document as it was
C14_UnsupportedNamesSkipped ==
  (pc = "done" /\ run = 1) =>
    /\ {layout[j].map : j \in 1..Len(layout)} = RequestedChannels
    /\ DOMAIN atlasTextures = RequestedChannels
    /\ \A m \in RequestedChannels :
         /\ textures[atlasTextures[m]].atlas
         /\ textures[atlasTextures[m]].map = m
    /\ RequestedChannels = {} => (layout = <<>> /\ Doc = pre)

\* a returned run over a list mixing supported and unsupported names
C14_Witness ==
  /\ pc = "done"
  /\ run = 1
  /\ \E k \in 1..Len(opts.maps) : opts.maps[k] \notin SupportedNames
  /\ Len(layout) = 2
  /\ Cardinality(DOMAIN atlasTextures) = 2

\* a returned run over a list without a supported name
C14_WitnessNone ==
  /\ pc = "done"
  /\ run = 1
  /\ opts.maps # <<>>
  /\ RequestedChannels = {}
  /\ layout = <<>>

(* ------------------------------------------------------------------ *)
(* Transform baking                                                     *)
(* ------------------------------------------------------------------ *)
BakeDone == pc = "unit-done" /\ unit.kind = "bake"

\* the matrix applied to a point, one row at a time, w taken as 1
ApplyAffine(m, p) ==
  <<RAdd(Dot3(m, 0, 4, 8, p), m[13]), RAdd(Dot3(m, 1, 5, 9, p), m[14]),
    RAdd(Dot3(m, 2, 6, 10, p), m[15])>>

RECURSIVE ApplyPath(_, _, _)
\* the local matrices of nodes 1 .. i applied to p, node i's first and the
\* root's last: (L1 * L2 * ... * Li) p
ApplyPath(locals, i, p) ==
  IF i = 0 THEN p ELSE ApplyPath(locals, i - 1, ApplyAffine(LocalOr(locals[i]), p))

\* C15: the baked position of a vertex of the primitive on node i is the
\* product of the local matrices from the root down to node i applied to the
\* source position, in the library and in the worker
C15_BakedPositionIsPathProduct ==
  BakeDone =>
    \A i \in 1..Len(unit.in.locals) :
      /\ unit.out.lib[i].pos = ApplyPath(unit.in.locals, i, unit.in.pos)
      /\ unit.out.worker[i].pos = ApplyPath(unit.in.locals, i, unit.in.pos)

\* a scale of 2 on X takes (1, 0, 0) to (2, 0, 0)
C15_Witness ==
  /\ BakeDone
  /\ unit.in.locals = <<ScaleX2>>
  /\ unit.in.pos = IntVec(<<1, 0, 0>>)
  /\ unit.out.lib[1].pos = IntVec(<<2, 0, 0>>)

\* a node under a parent: translation under a quarter turn
C15_WitnessNested ==
  /\ BakeDone
  /\ unit.in.locals = <<RotZ90, Translate123>>
  /\ unit.in.pos = IntVec(<<1, 0, 0>>)
  /\ unit.out.lib[2].pos = IntVec(<<0 - 2, 2, 3>>)

\* column j (1 .. 3) of the upper-left 3x3 block of node i's world transform:
\* the image of the unit vector j minus the image of the origin
WorldColumn(locals, i, j) ==
  LET o == ApplyPath(locals, i, IntVec(<<0, 0, 0>>))
      e == ApplyPath(locals, i, [k \in 1..3 |-> IF k = j THEN RInt(1) ELSE RInt(0)])
  IN <<RSubt(e[1], o[1]), RSubt(e[2], o[2]), RSubt(e[3], o[3])>>

RDot(a, b) == RAdd(RAdd(RMul(a[1], b[1]), RMul(a[2], b[2])), RMul(a[3], b[3]))
Cross(a, b) ==
  <<RSubt(RMul(a[2], b[3]), RMul(a[3], b[2])),
    RSubt(RMul(a[3], b[1]), RMul(a[1], b[3])),
    RSubt(RMul(a[1], b[2]), RMul(a[2], b[1]))>>
WorldDet(locals, i) ==
  RDot(WorldColumn(locals, i, 1),
       Cross(WorldColumn(locals, i, 2), WorldColumn(locals, i, 3)))

\* a and b are not zero and point the same way
SameDirection(a, b) ==
  /\ Cross(a, b) = IntVec(<<0, 0, 0>>)
  /\ RLt(RInt(0), RDot(a, b))

\* d is the direction of (inverse-transpose of M) v, M the 3x3 block of node
\* i's world transform: the transpose of M takes d back to the direction of v
IsInverseTransposeOf(d, locals, i, v) ==
  SameDirection(<<RDot(WorldColumn(locals, i, 1), d),
                  RDot(WorldColumn(locals, i, 2), d),
                  RDot(WorldColumn(locals, i, 3), d)>>, v)

Xyz(t) == <<t[1], t[2], t[3]>>

\* C16: where the 3x3 block of the world transform is invertible, the baked
\* normal and the xyz of the baked tangent are the source vector multiplied by
\* the inverse-transpose of that block and normalized, in the library and in
\* the worker
C16_BakedNormalIsInverseTranspose ==
  BakeDone =>
    \A i \in 1..Len(unit.in.locals) :
      ~RIsZero(WorldDet(unit.in.locals, i)) =>
        \A o \in {unit.out.lib[i], unit.out.worker[i]} :
          /\ IsInverseTransposeOf(o.normal, unit.in.locals, i, unit.in.normal)
          /\ IsInverseTransposeOf(Xyz(o.tangent), unit.in.locals, i, Xyz(unit.in.tangent))

\* C17: where the determinant of the 3x3 block of the world transform is zero,
\* the normal matrix is the identity: the baked normal and the xyz of the baked
\* tangent are the normalized source vectors, in the library and in the worker
C17_ZeroDeterminantKeepsDirection ==
  BakeDone =>
    \A i \in 1..Len(unit.in.locals) :
      RIsZero(WorldDet(unit.in.locals, i)) =>
        \A o \in {unit.out.lib[i], unit.out.worker[i]} :
          /\ o.normal = normalizeInPlace(unit.in.normal)
          /\ Xyz(o.tangent) = normalizeInPlace(Xyz(unit.in.tangent))

(* ------------------------------------------------------------------ *)
(* Merging primitives                                                   *)
(* ------------------------------------------------------------------ *)
MergeDone == pc = "unit-done" /\ unit.kind = "merge"

\* the primitives that contribute to the merge: those with POSITION
Contributing == {p \in 1..Len(unit.in.prims) : unit.in.prims[p].hasPos}

RECURSIVE SumOver(_, _, _)
\* the sum of f[p] over the primitives p .. Len(f) that contribute
SumOver(f, p, S) ==
  IF p > Len(f) THEN 0
  ELSE (IF p \in S THEN f[p] ELSE 0) + SumOver(f, p + 1, S)

VertexCounts == [p \in 1..Len(unit.in.prims) |-> unit.in.prims[p].count]
IndexCounts ==
  [p \in 1..Len(unit.in.prims) |->
     IF unit.in.prims[p].hasIdx THEN Len(unit.in.prims[p].idx) ELSE unit.in.prims[p].count]

\* C18: the merged primitive has as many vertices as the contributing
\* primitives together, and as many indices as they have together, a
\* non-indexed primitive counting one index per vertex
C18_MergedCountsAreSums ==
  (MergeDone /\ Len(unit.in.prims) >= 2 /\ unit.out.merged) =>
    /\ SumN(unit.out.POSITION) = SumOver(VertexCounts, 1, Contributing)
    /\ SumN(unit.out.indices) = SumOver(IndexCounts, 1, Contributing)

\* three primitives, indexed and non-indexed, merged
C18_Witness ==
  /\ MergeDone
  /\ Len(unit.in.prims) = 3
  /\ Contributing = {1, 2, 3}
  /\ unit.in.prims[1].hasIdx /\ ~unit.in.prims[2].hasIdx
  /\ unit.in.prims[1].count = 2 /\ unit.in.prims[2].count = 2 /\ unit.in.prims[3].count = 65534
  /\ unit.out.merged
  /\ SumN(unit.out.POSITION) = 65538
  /\ SumN(unit.out.indices) = 3 + 2 + 65534

RECURSIVE ComputedIndices(_, _, _)
\* the index values the merge computes, before they are stored: each
\* contributing primitive's indices (0 .. count - 1 if it has none) plus the
\* number of vertices of the contributing primitives before it
ComputedIndices(primList, p, base) ==
  IF p > Len(primList) THEN <<>>
  ELSE IF ~primList[p].hasPos THEN ComputedIndices(primList, p + 1, base)
  ELSE (IF primList[p].hasIdx
          THEN [k \in 1..Len(primList[p].idx) |->
                  [start |-> primList[p].idx[k] + base, n |-> 1]]
          ELSE <<[start |-> base, n |-> primList[p].count]>>)
         \o ComputedIndices(primList, p + 1, base + primList[p].count)

\* C19: the merged index buffer is 32-bit exactly when the merged vertex count
\* exceeds 65535, and every stored index equals the value computed for it
C19_IndexWidthFollowsVertexCount ==
  (MergeDone /\ unit.out.merged) =>
    /\ (unit.out.indexBits = 32) <=> (SumN(unit.out.POSITION) > 65535)
    /\ unit.out.indices = ComputedIndices(unit.in.prims, 1, 0)

\* attribute a ("norm", "tan" or "uv") of a primitive
Supplies(prim, a) ==
  IF a = "norm" THEN prim.norm ELSE IF a = "tan" THEN prim.tan ELSE prim.uv
MergedAttr(a) ==
  IF a = "norm" THEN unit.out.NORMAL
  ELSE IF a = "tan" THEN unit.out.TANGENT ELSE unit.out.TEXCOORD_0
Components(a) == IF a = "norm" THEN 3 ELSE IF a = "tan" THEN 4 ELSE 2

\* C20: NORMAL, TANGENT and TEXCOORD_0 are on the merged primitive only if
\* every contributing primitive supplied them and the concatenated length is
\* 3, 4 or 2 times the merged vertex count; an attribute some contributing
\* primitive lacks is absent; the elements of a kept attribute are those of
\* the merged vertices, in the same order
C20_AttributeKeptOnlyIfAllSupply ==
  (MergeDone /\ unit.out.merged) =>
    \A a \in {"norm", "tan", "uv"} :
      /\ MergedAttr(a).present =>
           /\ \A p \in Contributing : Supplies(unit.in.prims[p], a)
           /\ ArrLength(MergedAttr(a).runs, Components(a))
                = Components(a) * SumN(unit.out.POSITION)
           /\ MergedAttr(a).runs = unit.out.POSITION
      /\ (\E p \in Contributing : ~Supplies(unit.in.prims[p], a))
           => ~MergedAttr(a).present

\* NORMAL and TEXCOORD_0 kept, TANGENT dropped because one primitive lacks it
C20_Witness ==
  /\ MergeDone
  /\ unit.out.merged
  /\ Cardinality(Contributing) >= 2
  /\ unit.out.NORMAL.present
  /\ unit.out.TEXCOORD_0.present
  /\ ~unit.out.TANGENT.present
  /\ \E p \in Contributing : unit.in.prims[p].tan

(* ------------------------------------------------------------------ *)
(* The texcoord option                                                  *)
(* ------------------------------------------------------------------ *)
\* out is the document in after a remap loop in which every primitive that was
\* remapped read TEXCOORD_n, n the texcoord option of the call
ReadsOptionSet(in, out) ==
  \A i \in 1..Len(in.prims) :
    out.prims[i].attr[0] > Len(SrcAccessors) =>
      /\ in.prims[i].attr[in.texcoord] # 0
      /\ IsRemapOfArray(out.accessors[out.prims[i].attr[0]],
                        SrcAccessors[in.prims[i].attr[in.texcoord]],
                        in.rects[in.prims[i].mat], in.atlasSize, in.atlasSize)

\* C23: the UV set a remapped primitive's UVs are read from is TEXCOORD_n,
\* where n is the texcoord option of the call, in the library and in the worker
C23_TexcoordOptionSelectsUVSet ==
  (pc = "unit-done" /\ unit.kind = "remapLoop") =>
    /\ ReadsOptionSet(unit.in, unit.out.lib)
    /\ ReadsOptionSet(unit.in, unit.out.worker)

\* every index of the primitive is one of its vertices
ValidIndices(prim) ==
  prim.hasIdx => \A k \in 1..Len(prim.idx) : prim.idx[k] >= 0 /\ prim.idx[k] < prim.count

ScaleDone == pc = "unit-done" /\ unit.kind = "scale"

\* the options of a pass in single-bin fit mode, maxBins 0 or 1
FitOpts(in, maxBins) ==
  [maxSize |-> in.maxSize, padding |-> in.padding, maxBins |-> maxBins,
   resizeMode |-> "downscale"]

\* C30: in single-bin fit mode the scale the search returns is 1 if the items
\* pack into one bin at full scale, is always in (0, 1], and the real pack of
\* the items scaled by it succeeds with exactly one bin
C30_ReturnedScalePacksIntoOneBin ==
  (ScaleDone /\ unit.out.ok) =>
    /\ canPack(unit.in.items, unit.in.maxSize, unit.in.padding, 1, RInt(1))
         => unit.out.scale = RInt(1)
    /\ RLt(RInt(0), unit.out.scale)
    /\ RLe(unit.out.scale, RInt(1))
    /\ \A maxBins \in {0, 1} :
         /\ packBins(FitOpts(unit.in, maxBins), unit.in.items).ok
         /\ Len(packBins(FitOpts(unit.in, maxBins), unit.in.items).bins) = 1

\* two items that do not fit at full scale are scaled down and packed
C30_Witness ==
  /\ ScaleDone
  /\ unit.out.ok
  /\ Len(unit.in.items) = 2
  /\ RLt(unit.out.scale, RInt(1))
  /\ packBins(FitOpts(unit.in, 1), unit.in.items).ok
  /\ Len(packBins(FitOpts(unit.in, 1), unit.in.items).bins[1].rects) = 2

(* ------------------------------------------------------------------ *)
(* Channels without textures                                            *)
(* ------------------------------------------------------------------ *)
\* the channel whose pass made the call fail
FailedMap == IF layout = <<>> THEN canonicalMap ELSE validMaps[mapIdx]

\* some material had a texture in the channel when the call began
HasTextureIn(map) ==
  \E i \in 1..Len(pre.materials) : getter(map, pre.materials[i]) # 0

\* C27: a requested supported channel in which no material has a texture is
\* skipped, and processAtlas completes without error: the call never fails on
\* such a channel, canonical or later
C27_ChannelWithoutTexturesIsSkipped ==
  pc = "failed" => HasTextureIn(FailedMap)

(* ------------------------------------------------------------------ *)
(* Rect reuse                                                           *)
(* ------------------------------------------------------------------ *)
\* the rects of the reused layout of pass j that lie where rect does
ReusedAt(j, rect) ==
  {layout[j].atlases[1].rects[k] : k \in
     {k \in 1..Len(layout[j].atlases[1].rects) :
        /\ layout[j].atlases[1].rects[k].x = rect.x
        /\ layout[j].atlases[1].rects[k].y = rect.y}}

\* C26: in a reuse pass, the image placed at the canonical rect of a material
\* is that material's own texture for the pass's channel, or the fallback
\* (texture 0) when it has none, also when several materials share the rect
C26_ReusedRectHoldsMaterialsOwnTexture ==
  (pc \in {"reuse", "done"} /\ run = 1 /\ validMaps # <<>>) =>
    \A j \in 2..Len(layout) :
      \A m \in DOMAIN materialMaps[canonicalMap] :
        materialMaps[canonicalMap][m].atlasIndex = 0 =>
          \A q \in ReusedAt(j, materialMaps[canonicalMap][m].rect) :
            q.texture = getter(layout[j].map, pre.materials[m])

(* ---- C24 ---- *)
\* KHR_texture_transform: uv' = translation * rotation * scale * uv, with the
\* rotation matrix of columns (cos, sin) and (-sin, cos)
TransformedUV(uv, t) ==
  LET su == RMul(t.scale[1], uv[1])
      sv == RMul(t.scale[2], uv[2])
  IN <<RAdd(t.offset[1], RSubt(RMul(t.rot[1], su), RMul(t.rot[2], sv))),
       RAdd(t.offset[2], RAdd(RMul(t.rot[2], su), RMul(t.rot[1], sv)))>>

\* the primitives the loop remaps whose material's texture-info had a transform
TransformedPrims(in) ==
  {i \in 1..Len(in.prims) :
     /\ LibSet(in, in.prims[i]) >= 0
     /\ in.materials[in.prims[i].mat].xf["basecolor"].present}

TransformDone == pc = "unit-done" /\ unit.kind = "transform"

\* C24: every primitive whose material's texture-info carried a UV transform
\* when the pass started has in TEXCOORD_0 the rect remap of its transformed
\* UVs, also when several primitives share the material, and after the pass
\* that texture-info carries no transform
C24_TransformBakedForEveryPrimitive ==
  TransformDone =>
    \A i \in TransformedPrims(unit.in) :
      LET p == unit.in.prims[i]
          t == unit.in.materials[p.mat].xf["basecolor"]
          src == SrcAccessors[p.attr[LibSet(unit.in, p)]]
          out == unit.out.lib
      IN /\ IsRemapOfArray(out.accessors[out.prims[i].attr[0]],
                           [k \in 1..Len(src) |-> TransformedUV(src[k], t)],
                           unit.in.rects[p.mat], unit.in.atlasSize, unit.in.atlasSize)
         /\ ~out.materials[p.mat].xf["basecolor"].present

(* ---- C21 ---- *)
\* C21: a primitive without POSITION aborts the merge: when a primitive of
\* the mesh lacks POSITION, the merge does not complete with a merged
\* primitive built from the others
C21_MissingPositionAbortsMerge ==
  (MergeDone /\ \E p \in 1..Len(unit.in.prims) : ~unit.in.prims[p].hasPos) =>
    ~unit.out.merged

(* ---- C22 ---- *)
CollapseDone == pc = "unit-done" /\ unit.kind = "collapse"

\* C22: after collapseToSingleMeshAndMaterial the document has exactly one
\* mesh, one material and one node, that node is the only child of the first
\* scene, and the merged mesh holds exactly one primitive whenever the scene
\* hierarchy held at least one primitive
C22_CollapseLeavesOneOfEach ==
  CollapseDone =>
    /\ Cardinality(unit.out.meshes) = 1
    /\ Cardinality(unit.out.materials) = 1
    /\ unit.out.nodes = {unit.out.newNode}
    /\ unit.out.scenes[1] = <<unit.out.newNode>>
    /\ unit.out.sourcePrimitives >= 1 => unit.out.primitives = 1

(* ---- C28 ---- *)
\* the slot of the merged material that samples channel m
ChannelSlot(m) == IF m = "orm" THEN "mr" ELSE m

\* C28: when the document of the first call is collapsed, for every channel
\* that has an atlas, the texture the merged material samples for the channel
\* is the atlas of that channel for the bin in which the rect of each
\* remapped primitive lies
C28_MergedMaterialSamplesThePrimitivesBin ==
  [][(pc = "done" /\ pc' = "collapsed" /\ run = 1 /\ validMaps # <<>>) =>
       \A m \in DOMAIN atlasTextures :
         \A i \in 1..Len(prims) :
           (Remapped(i) /\ prims[i].mat \in DOMAIN materialMaps[canonicalMap]) =>
             LET tex == textures[materials'[1].tex[ChannelSlot(m)]]
             IN /\ tex.atlas
                /\ tex.map = m
                /\ tex.bin = materialMaps[canonicalMap][prims[i].mat].atlasIndex]_vars

(* ---- C29 ---- *)
\* the replies posted for message r
RepliesTo(r) == SelectSeq(unit.out.posted, LAMBDA m : m.req = r)

\* no file came with message r
NoFile(r) == unit.in.msgs[r] \in {"undefined", "null", "empty"}

\* C29: a worker never posts more than one reply for a message, and when the
\* handler of a message has finished it has posted exactly one: an error if
\* no file was provided or a step threw, the result otherwise, whatever the
\* handlers of the other messages did
C29_OneReplyPerMessage ==
  pc = "worker" =>
    \A r \in 1..MaxRequests :
      LET h == unit.out.handlers[r]
      IN /\ Len(RepliesTo(r)) <= 1
         /\ h.at \in {"returned", "rejected"} =>
              /\ Len(RepliesTo(r)) = 1
              /\ RepliesTo(r)[1].type = IF NoFile(r) \/ h.threw THEN "error" ELSE "glb"

====
